---- MODULE Spec2Model ----
(***************************************************************************)
(* Model of fabric/context.py: ContextRunner.multirun / _multirun, the     *)
(* forking worker pool that runs one command under every settings record   *)
(* of a context and collects one response per record.                      *)
(*                                                                         *)
(* Python indices are kept 0-based: responses is a function on             *)
(* 0..total-1, settings_list a sequence whose Python index i is element    *)
(* i+1.  A negative Python index wraps from the end (PyIndex).             *)
(*                                                                         *)
(* Timing is abstracted by enabling conditions.  How long either process   *)
(* takes between two of its steps is not bounded, so a timer may go off    *)
(* at any point between the alarm(n) that starts it and the alarm(0) that  *)
(* cancels it, whether or not the message waited for is there.  In the     *)
(* orchestrator (alarm(laggards_timeout) around accept) SIGALRM is handled *)
(* before accept has taken a connection (TimeoutBreak, TimeoutContinue),   *)
(* after accept took one but still inside the try (TimeoutBreakAccepted,   *)
(* TimeoutContinueAccepted), or after the try and before alarm(0)          *)
(* (AcceptAlarm).  In a worker (alarm(env.multirun_child_timeout) around   *)
(* read) it is handled before read has taken a value (ChildIdleTimeout,    *)
(* ChildAlarmSpent) or after it and before alarm(0) (ChildReadAlarm).      *)
(* env.multirun_child_timeout is an input: with 0 the alarm call starts    *)
(* no timer.  Wall-clock durations are whole ticks.                        *)
(*                                                                         *)
(* The two processes of a worker's life are interleaved statement by       *)
(* statement where the order shows: fork() (Fork) and the parent's first   *)
(* write to the new worker (Spawn) are two steps, so a worker exists with  *)
(* an empty pipe before its index is written; connect() (ChildConnect)     *)
(* and send() (ChildReport) are two steps, so the orchestrator can accept  *)
(* a connection whose report is not sent yet, and a worker whose accepted  *)
(* connection was dropped unread fails in send() (ChildSendFails).  An     *)
(* index travels through the pipe as the two bytes of pack('H'), low       *)
(* byte first.                                                             *)
(*                                                                         *)
(* The command is a callable; what it does for a host is fixed for the run *)
(* (outcome): it returns, raises, or never comes back.  abort() raises     *)
(* SystemExit, which the worker catches as BaseException and reports.      *)
(*                                                                         *)
(* Spec, ScenSpec and FairScenSpec are multirun with every system call     *)
(* succeeding; FairIdleSpec is the fair specification over the scenarios   *)
(* of at most three targets.  FaultSpec adds socket/bind and fork raising  *)
(* during the setup.  TwiceSpec calls multirun again with the same         *)
(* arguments after it returned: first keeps what the first call returned   *)
(* and what it left behind, the pipe descriptors it never closed and the   *)
(* workers still running, which go on stepping during the second call      *)
(* (FirstCallWorker).  Spec leaves out arguments the call never reads.     *)
(* RunSpec is the sequential ContextRunner.run with a callable command,    *)
(* and ApiSpec lets the caller make any one call on the same settings:     *)
(* multirun, run with a callable, or one of execute, local, reboot, run    *)
(* with a string command and sudo (OperationNext).  failed and succeeded   *)
(* are the two utility functions, evaluated element by element as any()    *)
(* and all() do.                                                           *)
(*                                                                         *)
(* SettingsSpec is the settings loader of contrib/tav.py (get_settings     *)
(* with its module-level cache) together with ContextRunner.__init__ and   *)
(* select, under an env that changes between calls; its inputs have no     *)
(* composite contexts, host patterns or dict hosts.  CodecSpec follows one *)
(* index through pack('H') and unpack('H') of a control pipe, for every    *)
(* index a 2-byte header can carry and the first ones beyond.              *)
(***************************************************************************)
EXTENDS Integers, Sequences, FiniteSets, TLC

\* ---------------------------------------------------------------- bounds
MaxTotal == 2
MaxPool == 2

\* pool size plus number of targets of a call
MaxSize == 4
MaxTimeout == 1
MaxRunTotal == 4

\* calls of get_settings and of the ContextRunner constructor in a behaviour
MaxCalls == 2

\* work indices beyond the largest one a control pipe header can carry
MaxOver == 1

\* ------------------------------------------------------- python values
None == [t |-> "none", v |-> 0]
PyInt(n) == [t |-> "int", v |-> n]
\* a float literal, in tenths: PyFloat(5) is 0.5
PyFloat(tenths) == [t |-> "float", v |-> tenths]

\* truth value of an argument: None, 0 and 0.0 are false
Truthy(x) == x.t # "none" /\ x.v # 0

IsInstanceInt(x) == x.t = "int"

IsInstanceFloat(x) == x.t = "float"

\* the product is rounded down
FloorFraction(tenths, n) == (tenths * n) \div 10

\* int(ceil(wait_for * len(settings_list))) for wait_for = tenths / 10
CeilFraction(tenths, n) == -((-(tenths * n)) \div 10)

\* sequence[i] with Python's wrap-around of negative indices
PyIndex(i, n) == IF i < 0 THEN i + n ELSE i

PyInRange(i, n) == PyIndex(i, n) >= 0 /\ PyIndex(i, n) < n

Min(a, b) == IF a < b THEN a ELSE b

\* index_header_size = calcsize('H'), in bytes
index_header_size == 2

\* the largest value of an unsigned short
USHRT_MAX == 2 ^ (8 * index_header_size) - 1

\* pack raised struct.error: nothing is written
StructError == "struct.error"

\* the positions of the bytes of a header
HeaderBytes == 1 .. index_header_size

\* byte k of v, the least significant one first (the byte order of the
\* machine: pack and unpack run on the same one)
ByteOf(v, k) == (v \div 2 ^ (8 * (k - 1))) % 2 ^ 8

\* only the low byte is written, the other one is zero
PackNarrow(v) == [k \in HeaderBytes |-> IF k = 1 THEN ByteOf(v, k) ELSE 0]

\* pack('H', v): the index_header_size bytes of v; outside 0 .. USHRT_MAX
\* pack raises struct.error
PackH(v) ==
    IF 0 <= v /\ v <= USHRT_MAX
    THEN [k \in HeaderBytes |-> ByteOf(v, k)]
    ELSE StructError

RECURSIVE UnpackFrom(_, _)
\* the value of the bytes of data from position k on
UnpackFrom(data, k) ==
    IF k > Len(data) THEN 0
    ELSE data[k] + 2 ^ 8 * UnpackFrom(data, k + 1)

\* unpack('H', data)[0]
UnpackH(data) == UnpackFrom(data, 1)

\* the index is written as it is
EncodeIndexRaw(i) == PackH(i)

\* pack('H', idx) after idx += 1: the value written for work index i
EncodeIndex(i) == PackH(i + 1)

\* pack('H', 0): the retirement message
RetireValue == PackH(0)

\* unpack('H', data)[0] - 1
DecodeIndex(data) == UnpackH(data) - 1

\* ------------------------------------------------------------ responses
TIMEOUT == [kind |-> "TIMEOUT", target |-> -1]

Unset == [kind |-> "None", target |-> -1]

\* what the worker puts in its report after running the command under
\* settings_list[target]: the command's return value, the exception it
\* raised (warn_only), or the SystemExit of abort() (not warn_only)
MakeResponse(result, target, warn) ==
    IF result = "ok" THEN [kind |-> "ok", target |-> target]
    ELSE IF warn THEN [kind |-> "Exception", target |-> target]
    ELSE [kind |-> "SystemExit", target |-> target]

\* the response is an exception object: what the worker's except clauses
\* bound to error and put in the report (SystemExit is a BaseException)
IsError(resp) == resp.kind \in {"Exception", "SystemExit"}

\* isinstance(resp, Exception): SystemExit derives from BaseException only
IsInstanceException(resp) == resp.kind = "Exception"

\* the response has the attributes failed and succeeded: a command's result
\* and ProcessTimeout do, an exception object and None do not
HasFlags(resp) == resp.kind \in {"ok", "TIMEOUT"}

\* resp.failed: ProcessTimeout.failed = 1
FailedFlag(resp) == resp.kind = "TIMEOUT"

\* resp.succeeded: ProcessTimeout.succeeded = 0
SucceededFlag(resp) == resp.kind = "ok"

RECURSIVE failedFrom(_, _)
\* any(...) from position k on: the generator is consumed left to right and
\* stops at the first true element; resp.failed raises AttributeError
failedFrom(rs, k) ==
    IF k \notin DOMAIN rs THEN "False"
    ELSE IF IsInstanceException(rs[k]) THEN "True"
    ELSE IF ~HasFlags(rs[k]) THEN "AttributeError"
    ELSE IF FailedFlag(rs[k]) THEN "True"
    ELSE failedFrom(rs, k + 1)

\* failed(responses)
failed(rs) == failedFrom(rs, 0)

RECURSIVE succeededFrom(_, _)
\* all(...) from position k on: stops at the first false element
succeededFrom(rs, k) ==
    IF k \notin DOMAIN rs THEN "True"
    ELSE IF IsInstanceException(rs[k]) THEN "False"
    ELSE IF ~HasFlags(rs[k]) THEN "AttributeError"
    ELSE IF ~SucceededFlag(rs[k]) THEN "False"
    ELSE succeededFrom(rs, k + 1)

\* succeeded(responses)
succeeded(rs) == succeededFrom(rs, 0)

\* ---------------------------------------------------------------- state
VARIABLES
    settings_list,      \* self._settings: sequence of host ids
    pool_size,          \* env.multirun_pool_size
    multirun_child_timeout, \* env.multirun_child_timeout, 0: no timer
    warn_only,          \* multirun argument
    quiet_exit,         \* multirun argument
    laggards_timeout,   \* multirun argument
    wait_for,           \* multirun argument, converted in multirun
    wait_for_arg,       \* wait_for as the caller passed it
    outcome,            \* the command: host id -> "ok" | "fail" | "hang"
    pc,                 \* orchestrator control point
    raised,             \* exception leaving multirun, "" if none
    client_id,          \* spawn loop variable
    idx,                \* next index to dispatch
    done,               \* number of reports recorded
    processes,          \* client_id -> [idx |-> last index written]
    responses,          \* index -> response
    break_early,
    total_waited,
    server,             \* "none" | "listening" | "closed"
    sock,               \* queue of unaccepted connections, each with its
                        \* report <<client_id, idx, response>>
    pipes,              \* client_id -> values written and not yet read
    fds,                \* client_ids whose parent-side pipe handles are open
    child,              \* client_id -> [st, idx]
    killed,             \* client_ids sent SIGTERM
    log,                \* every write to a control pipe: <<client_id, value>>
    recorded,           \* Python-normalised indices stored into responses
    dropped,            \* reports accepted and thrown away
    sent,               \* every report a worker sent, in order
    first,              \* what an earlier call on the same input returned
    cache,              \* tav.cache: contexts tuple -> settings sequence
    cache_init,         \* the '_init' marker of tav.cache
    default,            \* tav.default
    hostinfo,           \* tav.hostinfo
    get_host_info_set,  \* get_settings.get_host_info has been assigned
    env_config,         \* env.config, NoConfig when 'config' is not in env
    env_user,           \* env.user
    env_ctx,            \* env.ctx
    gs_arg,             \* contexts of the last get_settings call
    gs_ret,             \* what the last get_settings call returned or raised
    gs_first,           \* contexts tuple -> what its first resolution returned
    calls,              \* calls of get_settings and ContextRunner so far
    runner,             \* the ContextRunner constructed last
    wire                \* one index on its way through a control pipe

loader == <<cache, cache_init, default, hostinfo, get_host_info_set,
            env_config, env_user, env_ctx, gs_arg, gs_ret, gs_first, calls,
            runner>>

vars == <<settings_list, pool_size, multirun_child_timeout, warn_only,
          quiet_exit, laggards_timeout, wait_for, outcome, pc, raised,
          client_id, idx, done, processes, responses, break_early,
          total_waited, server, sock, pipes, fds, child, killed, log,
          recorded, dropped, wait_for_arg, sent, first, loader, wire>>

args == <<settings_list, pool_size, multirun_child_timeout, warn_only,
          quiet_exit, laggards_timeout, outcome, wait_for_arg, first, loader,
          wire>>

orch == <<client_id, idx, done, processes, responses, break_early,
          total_waited>>

hist == <<log, recorded, dropped, sent>>

total == Len(settings_list)

Clients == 0 .. pool_size - 1

EmptyMap == [c \in {} |-> 0]

NoChild == [st |-> "none", idx |-> 0]

\* no earlier call
NoFirst ==
    [ran |-> FALSE, classes |-> EmptyMap, early |-> 0, fds |-> {},
     child |-> EmptyMap, pipes |-> EmptyMap, cut |-> {}]

\* ----------------------------------------------------------------- Init
SettingsLists == {[i \in 1 .. n |-> i - 1] : n \in 0 .. MaxTotal}

Results == {"ok", "fail", "hang"}

LaggardArgs == {None, PyFloat(15), PyInt(-1), PyInt(MaxTimeout)}

WaitForArgs == {None, PyInt(1), PyFloat(15)}

\* env.multirun_child_timeout in seconds: no timer, or one that may go off
ChildTimeouts == {0, 10}

\* 'config' not in env
NoConfig ==
    [present |-> FALSE, default |-> EmptyMap, hostinfo |-> EmptyMap,
     ctxs |-> EmptyMap]

\* contexts = None
NoContexts == [t |-> "none", v |-> << >>]

\* get_settings has not been called
NoReturn == [called |-> FALSE, value |-> << >>, raised |-> "", repeat |-> FALSE]

\* no settings keyword
NoKeyword == [given |-> FALSE, v |-> << >>]

\* no ContextRunner has been constructed
NoRunner ==
    [made |-> FALSE, ctx |-> << >>, settings |-> << >>, kw |-> NoKeyword,
     args |-> << >>, raised |-> "", select |-> ""]

\* the module-level dictionaries of tav.py after import
LoaderFresh ==
    /\ cache = EmptyMap
    /\ cache_init = FALSE
    /\ default = EmptyMap
    /\ hostinfo = EmptyMap
    /\ get_host_info_set = FALSE
    /\ gs_arg = NoContexts
    /\ gs_ret = NoReturn
    /\ gs_first = EmptyMap
    /\ calls = 0
    /\ runner = NoRunner

\* no index is followed through a control pipe
NoWire == [st |-> "none", i |-> 0, v |-> << >>, d |-> 0]

\* the environment of a run whose settings are already resolved
EnvDefault ==
    /\ wire = NoWire
    /\ env_config = NoConfig
    /\ env_user = "root"
    /\ env_ctx = << >>

\* the variables of a call before it is made
InitCall ==
    /\ pc = "call"
    /\ raised = ""
    /\ client_id = 0
    /\ idx = 0
    /\ done = 0
    /\ processes = EmptyMap
    /\ responses = EmptyMap
    /\ break_early = 0
    /\ total_waited = 0
    /\ server = "none"
    /\ sock = << >>
    /\ pipes = [c \in Clients |-> << >>]
    /\ fds = {}
    /\ child = [c \in Clients |-> NoChild]
    /\ killed = {}
    /\ log = << >>
    /\ recorded = {}
    /\ dropped = {}
    /\ sent = << >>
    /\ wait_for_arg = wait_for
    /\ first = NoFirst

\* the state of a call before it is made, with the loader untouched
InitRun ==
    /\ LoaderFresh
    /\ EnvDefault
    /\ InitCall

\* arguments that are read: warn_only matters only to a command that
\* fails, and an int wait_for only to a call with laggards_timeout
ArgsRead ==
    /\ warn_only \/ \E i \in DOMAIN outcome : outcome[i] = "fail"
    /\ laggards_timeout = None => ~IsInstanceInt(wait_for)

Init ==
    /\ settings_list \in SettingsLists
    /\ pool_size \in 1 .. MaxPool
    /\ pool_size + Len(settings_list) <= MaxSize
    /\ multirun_child_timeout \in ChildTimeouts
    /\ warn_only \in BOOLEAN
    /\ quiet_exit \in BOOLEAN
    /\ laggards_timeout \in LaggardArgs
    /\ wait_for \in WaitForArgs
    /\ outcome \in [0 .. Len(settings_list) - 1 -> Results]
    /\ ArgsRead
    /\ InitRun

\* -------------------------------------------------------------- multirun
LaggardMode == Truthy(laggards_timeout)

\* the two ValueError checks of multirun
BadLaggardsTimeout == LaggardMode /\ ~IsInstanceInt(laggards_timeout)

BadWaitFor ==
    /\ LaggardMode
    /\ IsInstanceFloat(wait_for)
    /\ ~(0 <= wait_for.v /\ wait_for.v <= 10)

\* wait_for = int(ceil(wait_for * len(settings_list)))
ConvertWaitFor ==
    IF LaggardMode /\ IsInstanceFloat(wait_for)
    THEN PyInt(CeilFraction(wait_for.v, total))
    ELSE wait_for

\* the early return is never taken
NoSettingsNever == FALSE

\* not settings_list
NoSettings == settings_list = << >>

\* if not settings_list: return ResponseList.new(settings_list)
MultirunEmpty ==
    /\ pc = "call"
    /\ NoSettings
    /\ pc' = "returned"
    /\ responses' = EmptyMap
    /\ UNCHANGED <<args, wait_for, raised, client_id, idx, done, processes,
                   break_early, total_waited, server, sock, pipes, fds,
                   child, killed, hist>>

MultirunValueError ==
    /\ pc = "call"
    /\ ~NoSettings
    /\ BadLaggardsTimeout \/ BadWaitFor
    /\ pc' = "raised"
    /\ raised' = "ValueError"
    /\ UNCHANGED <<args, wait_for, orch, server, sock, pipes, fds, child,
                   killed, hist>>

\* the call of _multirun up to server.listen(pool_size)
MultirunStart ==
    /\ pc = "call"
    /\ ~NoSettings
    /\ ~BadLaggardsTimeout
    /\ ~BadWaitFor
    /\ wait_for' = ConvertWaitFor
    /\ done' = 0
    /\ idx' = 0
    /\ processes' = EmptyMap
    /\ client_id' = 0
    /\ server' = "listening"
    /\ pc' = "spawn"
    /\ UNCHANGED <<args, raised, responses, break_early, total_waited, sock,
                   pipes, fds, child, killed, hist>>

\* only the first worker is ever forked
PoolWorkersSingle == Min(1, total)

\* range(total): the pool size is not applied
PoolWorkersUncapped == total

\* number of workers forked by the spawn loop
PoolWorkers == Min(pool_size, total)

\* the increment is lost
NextIndexStuck(i) == i

\* idx += 1
NextIndex(i) == i + 1

\* from_parent, to_child = pipe(); pid = fork(): worker client_id exists
\* and enters its loop, its control pipe still empty
Fork ==
    /\ pc = "spawn"
    /\ client_id < PoolWorkers
    /\ fds' = fds \cup {client_id}
    /\ child' = [child EXCEPT ![client_id] = [st |-> "waiting", idx |-> 0]]
    /\ pc' = "forked"
    /\ UNCHANGED <<args, wait_for, raised, orch, server, sock, pipes, killed,
                   hist>>

\* the parent after fork(): the table entry, idx += 1 and the write of the
\* worker's first index, then the next iteration of the spawn loop
Spawn ==
    /\ pc = "forked"
    /\ processes' = (client_id :> [idx |-> idx]) @@ processes
    /\ idx' = NextIndex(idx)
    /\ pipes' = [pipes EXCEPT ![client_id] = Append(@, EncodeIndex(idx))]
    /\ log' = Append(log, <<client_id, EncodeIndex(idx)>>)
    /\ client_id' = client_id + 1
    /\ pc' = "spawn"
    /\ UNCHANGED <<args, wait_for, raised, done, responses, break_early,
                   total_waited, server, sock, fds, child, killed, recorded,
                   dropped, sent>>

\* [None] * total in laggard mode too
PlaceholderUnset == Unset

\* the placeholder every slot of responses starts with
Placeholder == IF LaggardMode THEN TIMEOUT ELSE Unset

\* [TIMEOUT] * total  /  [None] * total
Prefill == [i \in 0 .. total - 1 |-> Placeholder]

\* responses = [TIMEOUT] * total  /  [None] * total
InitResponses ==
    /\ pc = "spawn"
    /\ client_id >= PoolWorkers
    /\ responses' = Prefill
    /\ break_early' = 0
    /\ total_waited' = 0
    /\ pc' = "loop"
    /\ UNCHANGED <<args, wait_for, raised, client_id, idx, done, processes,
                   server, sock, pipes, fds, child, killed, hist>>

\* ----------------------------------------------------- orchestrator loop
\* wait_for and done >= wait_for
PastWaitFor == Truthy(wait_for) /\ done >= wait_for.v

\* what time() - wait_start can measure, in ticks, for an accept that
\* returned before the alarm: wait_start is taken before alarm() and the
\* end after alarm(0), so the measure can pass laggards_timeout by a little
\* (the tick laggards_timeout + 1)
Elapsed ==
    IF LaggardMode /\ PastWaitFor
    THEN 0 .. (IF laggards_timeout.v > 0 THEN laggards_timeout.v + 1 ELSE 0)
    ELSE {0}

\* total_waited > laggards_timeout after an accept that took d
WaitedTooLong(d) ==
    LaggardMode /\ PastWaitFor /\ total_waited + d > laggards_timeout.v

Waited(d) == IF LaggardMode /\ PastWaitFor THEN total_waited + d ELSE total_waited

\* the report at the head of the accept queue
Report == Head(sock)

ReportClient == Report[1]

ReportIndex == Report[2]

ReportResponse == Report[3]

\* the worker of the report at the head of the queue has sent it and
\* closed its end: the recv loop of the orchestrator has read to the end
Delivered == child[ReportClient].st # "connected"

\* the response is stored at its position of arrival
SlotArrival(resp_idx) == done

\* the slot responses[resp_idx] = response writes
Slot(resp_idx) == PyIndex(resp_idx, total)

\* the assignment is lost
StoreNothing(resp_idx, response) == responses

\* responses[resp_idx] = response
Store(resp_idx, response) ==
    [responses EXCEPT ![Slot(resp_idx)] = response]

\* every timeout leaves the loop
BreakOnTimeoutAny == TRUE

\* the handler without its first test, not wait_for
BreakOnTimeoutDoneOnly == Truthy(wait_for) /\ done >= wait_for.v

\* in the TimeoutException handler: not wait_for, or done >= wait_for
BreakOnTimeout == ~Truthy(wait_for) \/ done >= wait_for.v

\* SIGALRM arrives before accept() has taken a connection (no report is
\* queued, or the timer ran out first): TimeoutException is caught by the
\* except clause and the loop is left, the queue as it was
TimeoutBreak ==
    /\ pc = "loop"
    /\ done < total
    /\ LaggardMode
    /\ laggards_timeout.v > 0
    /\ BreakOnTimeout
    /\ break_early' = 1
    /\ pc' = "teardown"
    /\ UNCHANGED <<args, wait_for, raised, client_id, idx, done, processes,
                   responses, total_waited, server, sock, pipes, fds, child,
                   killed, hist>>

\* as TimeoutBreak, with done < wait_for: continue
TimeoutContinue ==
    /\ pc = "loop"
    /\ done < total
    /\ LaggardMode
    /\ laggards_timeout.v > 0
    /\ ~BreakOnTimeout
    /\ UNCHANGED vars

\* SIGALRM arrives after accept() has taken the connection off the queue
\* and before `conn, addr` are bound, still inside the try: the except
\* clause catches TimeoutException, the connection is lost unread and the
\* loop is left
TimeoutBreakAccepted ==
    /\ pc = "loop"
    /\ done < total
    /\ LaggardMode
    /\ laggards_timeout.v > 0
    /\ sock # << >>
    /\ BreakOnTimeout
    /\ dropped' = dropped \cup {Report}
    /\ sock' = Tail(sock)
    /\ break_early' = 1
    /\ pc' = "teardown"
    /\ UNCHANGED <<args, wait_for, raised, client_id, idx, done, processes,
                   responses, total_waited, server, pipes, fds, child,
                   killed, log, recorded, sent>>

\* as TimeoutBreakAccepted, with done < wait_for: the connection is lost
\* unread and the loop goes on to the next accept()
TimeoutContinueAccepted ==
    /\ pc = "loop"
    /\ done < total
    /\ LaggardMode
    /\ laggards_timeout.v > 0
    /\ sock # << >>
    /\ ~BreakOnTimeout
    /\ dropped' = dropped \cup {Report}
    /\ sock' = Tail(sock)
    /\ UNCHANGED <<args, wait_for, pc, raised, orch, server, pipes, fds,
                   child, killed, log, recorded, sent>>

\* accept() returned, but total_waited now exceeds laggards_timeout: the
\* loop is left with the accepted connection unread
AcceptBreak ==
    /\ pc = "loop"
    /\ done < total
    /\ sock # << >>
    /\ \E d \in Elapsed :
        /\ WaitedTooLong(d)
        /\ total_waited' = Waited(d)
    /\ break_early' = 1
    /\ dropped' = dropped \cup {Report}
    /\ sock' = Tail(sock)
    /\ pc' = "teardown"
    /\ UNCHANGED <<args, wait_for, raised, client_id, idx, done, processes,
                   responses, server, pipes, fds, child, killed, log,
                   recorded, sent>>

\* SIGALRM arrives after accept() returned and before alarm(0) cancelled
\* the timer: timeout_handler raises TimeoutException in the else clause,
\* outside the try, and it leaves multirun with the connection unread,
\* the socket listening and every pipe open
AcceptAlarm ==
    /\ pc = "loop"
    /\ done < total
    /\ LaggardMode
    /\ laggards_timeout.v > 0
    /\ sock # << >>
    /\ dropped' = dropped \cup {Report}
    /\ sock' = Tail(sock)
    /\ pc' = "raised"
    /\ raised' = "TimeoutException"
    /\ UNCHANGED <<args, wait_for, orch, server, pipes, fds, child, killed,
                   log, recorded, sent>>

\* a report is read and stored, and its worker is handed the next index
Redispatch ==
    /\ pc = "loop"
    /\ done < total
    /\ sock # << >>
    /\ Delivered
    /\ \E d \in Elapsed :
        /\ ~WaitedTooLong(d)
        /\ total_waited' = Waited(d)
    /\ PyInRange(ReportIndex, total)
    /\ ReportClient \in DOMAIN processes
    /\ idx < total
    /\ sock' = Tail(sock)
    /\ responses' = Store(ReportIndex, ReportResponse)
    /\ recorded' = recorded \cup {Slot(ReportIndex)}
    /\ done' = done + 1
    /\ processes' = [processes EXCEPT ![ReportClient] = [idx |-> idx]]
    /\ idx' = NextIndex(idx)
    /\ pipes' = [pipes EXCEPT ![ReportClient] = Append(@, EncodeIndex(idx))]
    /\ log' = Append(log, <<ReportClient, EncodeIndex(idx)>>)
    /\ UNCHANGED <<args, wait_for, pc, raised, client_id, break_early,
                   server, fds, child, killed, dropped, sent>>

\* the table is emptied
PopAll(c) == EmptyMap

\* the worker stays in the table
PopNothing(c) == processes

\* processes.pop(client_id): the table without worker c
Pop(c) == [d \in DOMAIN processes \ {c} |-> processes[d]]

\* a report is read and stored, and its worker is retired
Retire ==
    /\ pc = "loop"
    /\ done < total
    /\ sock # << >>
    /\ Delivered
    /\ \E d \in Elapsed :
        /\ ~WaitedTooLong(d)
        /\ total_waited' = Waited(d)
    /\ PyInRange(ReportIndex, total)
    /\ ReportClient \in DOMAIN processes
    /\ idx >= total
    /\ sock' = Tail(sock)
    /\ responses' = Store(ReportIndex, ReportResponse)
    /\ recorded' = recorded \cup {Slot(ReportIndex)}
    /\ done' = done + 1
    /\ processes' = Pop(ReportClient)
    /\ pipes' = [pipes EXCEPT ![ReportClient] = Append(@, RetireValue)]
    /\ log' = Append(log, <<ReportClient, RetireValue>>)
    /\ fds' = fds \ {ReportClient}
    /\ UNCHANGED <<args, wait_for, pc, raised, client_id, idx, break_early,
                   server, child, killed, dropped, sent>>

\* a report is read and stored, and processes[client_id] raises KeyError
ReportKeyError ==
    /\ pc = "loop"
    /\ done < total
    /\ sock # << >>
    /\ Delivered
    /\ \E d \in Elapsed :
        /\ ~WaitedTooLong(d)
        /\ total_waited' = Waited(d)
    /\ PyInRange(ReportIndex, total)
    /\ ReportClient \notin DOMAIN processes
    /\ sock' = Tail(sock)
    /\ responses' = Store(ReportIndex, ReportResponse)
    /\ recorded' = recorded \cup {Slot(ReportIndex)}
    /\ done' = done + 1
    /\ pc' = "raised"
    /\ raised' = "KeyError"
    /\ UNCHANGED <<args, wait_for, client_id, idx, processes, break_early,
                   server, pipes, fds, child, killed, log, dropped, sent>>

\* every worker that was forked is signalled, the retired ones too
LaggardsSpawned ==
    IF LaggardMode /\ break_early = 1
    THEN {c \in Clients : child[c].st # "none"}
    ELSE {}

\* every worker still alive is signalled at the end of every run
LaggardsEveryTeardown ==
    {c \in Clients :
        child[c].st \in {"waiting", "blocked", "running", "connected"}}

\* the workers sent SIGTERM after the loop
Laggards == IF LaggardMode /\ break_early = 1 THEN DOMAIN processes ELSE {}

Alive(c) == child[c].st \in {"waiting", "blocked", "running", "connected"}

\* everything after the loop: kill the laggards, close and remove the socket
Teardown ==
    /\ pc = "teardown" \/ (pc = "loop" /\ done >= total)
    /\ killed' = killed \cup Laggards
    /\ child' = [c \in DOMAIN child |->
                    IF c \in Laggards /\ Alive(c)
                    THEN [child[c] EXCEPT !.st = "killed"]
                    ELSE child[c]]
    /\ server' = "closed"
    /\ sock' = << >>
    /\ pc' = "returned"
    /\ UNCHANGED <<args, wait_for, raised, orch, pipes, fds, hist>>

\* --------------------------------------------------------------- workers
\* die(): sys.exit() only under quiet_exit
DieExits == quiet_exit

\* the worker is in `alarm(...); read(...)`: "waiting" with the timer
\* running, "blocked" once the timer is spent
InRead(c) == child[c].st \in {"waiting", "blocked"}

\* alarm(env.multirun_child_timeout) started a timer that has not gone
\* off: alarm(0) starts none
TimerRuns(c) == child[c].st = "waiting" /\ multirun_child_timeout > 0

\* the worker reads the retirement value and die() ends it
ChildRetire(c) ==
    /\ InRead(c)
    /\ pipes[c] # << >>
    /\ DecodeIndex(Head(pipes[c])) = -1
    /\ DieExits
    /\ pipes' = [pipes EXCEPT ![c] = Tail(@)]
    /\ child' = [child EXCEPT ![c] = [st |-> "exited", idx |-> -1]]
    /\ UNCHANGED <<args, wait_for, pc, raised, orch, server, sock, fds,
                   killed, hist>>

\* the worker reads a value and goes on to run the command under
\* settings_list[idx]; after a die() that returned, idx is -1
ChildRead(c) ==
    /\ InRead(c)
    /\ pipes[c] # << >>
    /\ DecodeIndex(Head(pipes[c])) = -1 => ~DieExits
    /\ pipes' = [pipes EXCEPT ![c] = Tail(@)]
    /\ child' = [child EXCEPT ![c] =
                    [st |-> "running", idx |-> DecodeIndex(Head(pipes[c]))]]
    /\ UNCHANGED <<args, wait_for, pc, raised, orch, server, sock, fds,
                   killed, hist>>

\* the host whose settings the worker runs the command under
Target(i) == settings_list[PyIndex(i, total) + 1]

\* the response the worker ends up with for index i: the command's return
\* value, or the error the two except clauses caught
WorkerResponse(i) == MakeResponse(outcome[Target(i)], Target(i), warn_only)

\* the report (client_id, idx, response) of worker c on the queue q
SendReport(q, c, i, response) == Append(q, <<c, i, response>>)

\* the report worker c has ready
ReportOf(c) == <<c, child[c].idx, WorkerResponse(child[c].idx)>>

\* the command finished: client.connect(socket_path) puts the worker's
\* connection on the accept queue of the result socket
ChildConnect(c) ==
    /\ child[c].st = "running"
    /\ PyInRange(child[c].idx, total)
    /\ outcome[Target(child[c].idx)] # "hang"
    /\ server = "listening"
    /\ sock' = SendReport(sock, c, child[c].idx,
                           WorkerResponse(child[c].idx))
    /\ child' = [child EXCEPT ![c].st = "connected"]
    /\ UNCHANGED <<args, wait_for, pc, raised, orch, server, pipes, fds,
                   killed, hist>>

\* the orchestrator accepted the worker's connection and left the loop
\* iteration without reading it
Cut(c) == ReportOf(c) \in dropped

\* client.send(dumps((client_id, idx, response))); client.close(): the
\* report goes into the connection, whether or not accept() has returned
\* it, and the worker is back at the head of its loop.  A connection the
\* orchestrator dropped takes the report for as long as the frame of
\* _multirun or the traceback of TimeoutException still refers to it.
ChildReport(c) ==
    /\ child[c].st = "connected"
    /\ Cut(c) => pc # "returned"
    /\ sent' = SendReport(sent, c, child[c].idx,
                           WorkerResponse(child[c].idx))
    /\ child' = [child EXCEPT ![c].st = "waiting"]
    /\ UNCHANGED <<args, wait_for, pc, raised, orch, server, sock, pipes,
                   fds, killed, log, recorded, dropped>>

\* client.send raises EPIPE: the orchestrator accepted the connection and
\* dropped it before the worker sent, and the socket object is gone; the
\* exception is outside the worker's try and ends it
ChildSendFails(c) ==
    /\ child[c].st = "connected"
    /\ Cut(c)
    /\ child' = [child EXCEPT ![c].st = "crashed"]
    /\ UNCHANGED <<args, wait_for, pc, raised, orch, server, sock, pipes,
                   fds, killed, hist>>

\* the command finished after the socket was closed: connect() raises
ChildConnectFails(c) ==
    /\ child[c].st = "running"
    /\ PyInRange(child[c].idx, total)
    /\ outcome[Target(child[c].idx)] # "hang"
    /\ server = "closed"
    /\ child' = [child EXCEPT ![c].st = "crashed"]
    /\ UNCHANGED <<args, wait_for, pc, raised, orch, server, sock, pipes,
                   fds, killed, hist>>

\* SIGALRM arrives after read() returned and before alarm(0) cancelled the
\* timer: under quiet_exit die() exits with the value taken from the pipe
\* and the command not started (otherwise die() returns and the worker goes
\* on as in ChildRead)
ChildReadAlarm(c) ==
    /\ TimerRuns(c)
    /\ pipes[c] # << >>
    /\ DieExits
    /\ pipes' = [pipes EXCEPT ![c] = Tail(@)]
    /\ child' = [child EXCEPT ![c].st = "exited"]
    /\ UNCHANGED <<args, wait_for, pc, raised, orch, server, sock, fds,
                   killed, hist>>

\* the worker after SIGALRM arrived while it was blocked in read: die()
\* exits under quiet_exit; otherwise the handler returns and read raises
\* OSError (EINTR), which nothing in the worker loop catches
AfterAlarm == IF DieExits THEN "exited" ELSE "crashed"

\* SIGALRM before read() has taken a value, in read or between alarm() and
\* read(): under quiet_exit die() exits and what the pipe holds stays
\* unread; otherwise a read blocked on an empty pipe raises EINTR
ChildIdleTimeout(c) ==
    /\ TimerRuns(c)
    /\ pipes[c] = << >> \/ DieExits
    /\ child' = [child EXCEPT ![c].st = AfterAlarm]
    /\ UNCHANGED <<args, wait_for, pc, raised, orch, server, sock, pipes,
                   fds, killed, hist>>

\* SIGALRM between alarm() and read() with quiet_exit off: die() returns,
\* the timer is spent and read() is entered with none running
ChildAlarmSpent(c) ==
    /\ TimerRuns(c)
    /\ ~DieExits
    /\ child' = [child EXCEPT ![c].st = "blocked"]
    /\ UNCHANGED <<args, wait_for, pc, raised, orch, server, sock, pipes,
                   fds, killed, hist>>

\* ----------------------------------------------------------------- Next
Next ==
    \/ MultirunEmpty
    \/ MultirunValueError
    \/ MultirunStart
    \/ Fork
    \/ Spawn
    \/ InitResponses
    \/ TimeoutBreak
    \/ TimeoutContinue
    \/ TimeoutBreakAccepted
    \/ TimeoutContinueAccepted
    \/ AcceptBreak
    \/ AcceptAlarm
    \/ Redispatch
    \/ Retire
    \/ ReportKeyError
    \/ Teardown
    \/ \E c \in Clients : ChildRetire(c)
    \/ \E c \in Clients : ChildRead(c)
    \/ \E c \in Clients : ChildReadAlarm(c)
    \/ \E c \in Clients : ChildConnect(c)
    \/ \E c \in Clients : ChildReport(c)
    \/ \E c \in Clients : ChildSendFails(c)
    \/ \E c \in Clients : ChildConnectFails(c)
    \/ \E c \in Clients : ChildIdleTimeout(c)
    \/ \E c \in Clients : ChildAlarmSpent(c)

Spec == Init /\ [][Next]_vars

\* ------------------------------------------------- the spec's scenarios
Hosts(n) == [i \in 1 .. n |-> i - 1]

\* total = 3, pool_size = 3, any target may fail
ScenIsolation ==
    /\ settings_list = Hosts(3)
    /\ pool_size = 3
    /\ multirun_child_timeout = 0
    /\ warn_only \in BOOLEAN
    /\ quiet_exit \in BOOLEAN
    /\ laggards_timeout = None
    /\ wait_for = None
    /\ outcome \in [0 .. 2 -> {"ok", "fail"}]

\* total = 6, pool_size = 2, no failure, no timeout
ScenWaves ==
    /\ settings_list = Hosts(6)
    /\ pool_size = 2
    /\ multirun_child_timeout = 10
    /\ warn_only = TRUE
    /\ quiet_exit \in BOOLEAN
    /\ laggards_timeout = None
    /\ wait_for = None
    /\ outcome = [i \in 0 .. 5 |-> "ok"]

\* total = 10, pool_size = 4, wait_for = 0.5, targets 5-9 never complete
ScenLaggards ==
    /\ settings_list = Hosts(10)
    /\ pool_size = 4
    /\ multirun_child_timeout = 0
    /\ warn_only = TRUE
    /\ quiet_exit = TRUE
    /\ laggards_timeout = PyInt(1)
    /\ wait_for = PyFloat(5)
    /\ outcome = [i \in 0 .. 9 |-> IF i < 5 THEN "ok" ELSE "hang"]

\* laggard mode over three targets, any of which may fail or never complete
ScenPartial ==
    /\ settings_list = Hosts(3)
    /\ pool_size \in 1 .. 2
    /\ multirun_child_timeout = 10
    /\ warn_only = TRUE
    /\ quiet_exit \in BOOLEAN
    /\ laggards_timeout = PyInt(1)
    /\ wait_for \in {None, PyInt(1)}
    /\ outcome \in [0 .. 2 -> Results]

\* calls that end before _multirun
ScenRejected ==
    /\ settings_list \in {Hosts(0), Hosts(1)}
    /\ pool_size = 1
    /\ multirun_child_timeout = 10
    /\ warn_only = TRUE
    /\ quiet_exit = TRUE
    /\ laggards_timeout \in {PyFloat(15), PyInt(0)}
    /\ wait_for = None
    /\ outcome \in [0 .. Len(settings_list) - 1 -> {"ok"}]

\* warn_only = False over three targets with fewer workers than targets
ScenStrict ==
    /\ settings_list = Hosts(3)
    /\ pool_size \in 1 .. 2
    /\ multirun_child_timeout = 10
    /\ warn_only = FALSE
    /\ quiet_exit \in BOOLEAN
    /\ laggards_timeout = None
    /\ wait_for = None
    /\ outcome \in [0 .. 2 -> {"ok", "fail"}]

\* laggard mode over three targets with every fraction 0.0, 0.1, ..., 1.0
\* and two absolute counts as wait_for
ScenFractions ==
    /\ settings_list = Hosts(3)
    /\ pool_size = 2
    /\ multirun_child_timeout = 10
    /\ warn_only = TRUE
    /\ quiet_exit = TRUE
    /\ laggards_timeout = PyInt(1)
    /\ wait_for \in {PyFloat(t) : t \in 0 .. 10} \cup {PyInt(2), PyInt(5)}
    /\ outcome \in [0 .. 2 -> {"ok", "hang"}]

InitScen ==
    /\ \/ ScenIsolation
       \/ ScenWaves
       \/ ScenLaggards
       \/ ScenPartial
       \/ ScenRejected
       \/ ScenStrict
       \/ ScenFractions
    /\ InitRun

ScenSpec == InitScen /\ [][Next]_vars

\* ------------------------------------------------- faults during setup
\* socket() or server.bind(socket_path) raises: nothing was created yet but
\* the socket object, which goes away with the frame
BindFails ==
    /\ pc = "call"
    /\ ~NoSettings
    /\ ~BadLaggardsTimeout
    /\ ~BadWaitFor
    /\ wait_for' = ConvertWaitFor
    /\ pc' = "raised"
    /\ raised' = "socket.error"
    /\ UNCHANGED <<args, orch, server, sock, pipes, fds, child, killed,
                   hist>>

\* fork() raises OSError in the spawn loop, after pipe() returned the two
\* descriptors for this worker; nothing in _multirun or multirun catches it
ForkFails ==
    /\ pc = "spawn"
    /\ client_id < PoolWorkers
    /\ fds' = fds \cup {client_id}
    /\ pc' = "raised"
    /\ raised' = "OSError"
    /\ UNCHANGED <<args, wait_for, orch, server, sock, pipes, child, killed,
                   hist>>

FaultNext == Next \/ BindFails \/ ForkFails

FaultSpec == Init /\ [][FaultNext]_vars

\* ------------------------------------------------- two calls of multirun
\* isinstance(resp, Exception) or resp.failed, for one response: SystemExit
\* is not an Exception and, like None, has no attribute failed, so the
\* expression raises AttributeError on both
CountsFailed(resp) ==
    IF IsInstanceException(resp) THEN "True"
    ELSE IF ~HasFlags(resp) THEN "AttributeError"
    ELSE IF FailedFlag(resp) THEN "True"
    ELSE "False"

\* the success/failure classification of the list, index by index: what
\* failed and succeeded say of the response at that index alone; where they
\* raise AttributeError the response has no class
Classes ==
    [i \in DOMAIN responses |->
        LET one == 0 :> responses[i]
        IN  IF failed(one) = "True" /\ succeeded(one) = "False"
            THEN "failed"
            ELSE IF failed(one) = "False" /\ succeeded(one) = "True"
            THEN "succeeded"
            ELSE "AttributeError"]

\* multirun has returned and is called again with the same arguments on the
\* same settings: a new socket path, new pipes, new workers.  The pipe
\* descriptors the first call did not close stay open, and its workers
\* that are still alive go on running (first.fds, first.child with
\* first.pipes; first.cut are the workers whose connection was dropped).
MultirunAgain ==
    /\ pc = "returned"
    /\ ~first.ran
    /\ first' = [ran |-> TRUE, classes |-> Classes, early |-> break_early,
                 fds |-> fds, child |-> child, pipes |-> pipes,
                 cut |-> {c \in Clients :
                            child[c].st = "connected" /\ Cut(c)}]
    /\ wait_for' = wait_for_arg
    /\ pc' = "call"
    /\ raised' = ""
    /\ client_id' = 0
    /\ idx' = 0
    /\ done' = 0
    /\ processes' = EmptyMap
    /\ responses' = EmptyMap
    /\ break_early' = 0
    /\ total_waited' = 0
    /\ server' = "none"
    /\ sock' = << >>
    /\ pipes' = [c \in Clients |-> << >>]
    /\ fds' = {}
    /\ child' = [c \in Clients |-> NoChild]
    /\ killed' = {}
    /\ log' = << >>
    /\ recorded' = {}
    /\ dropped' = {}
    /\ sent' = << >>
    /\ UNCHANGED <<settings_list, pool_size, multirun_child_timeout,
                   warn_only, quiet_exit, laggards_timeout, outcome,
                   wait_for_arg, loader, wire>>

\* the worker record w of the first call after it read the head of q
AfterRead(w, q) ==
    IF DecodeIndex(Head(q)) = -1 /\ DieExits
    THEN [st |-> "exited", idx |-> -1]
    ELSE [st |-> "running", idx |-> DecodeIndex(Head(q))]

\* the worker loop (lines 419-451) of a worker of the first call once that
\* call has returned: its read, its timer, and the report of a command
\* that finishes now, whose connect() finds the socket path removed
LeftBehind(c) ==
    LET w == first.child[c]
        q == first.pipes[c]
        timer == w.st = "waiting" /\ multirun_child_timeout > 0
    IN  (IF w.st \in {"waiting", "blocked"} /\ q # << >>
         THEN {[w |-> AfterRead(w, q), q |-> Tail(q)]} ELSE {})
        \cup
        (IF timer /\ q # << >> /\ DieExits
         THEN {[w |-> [w EXCEPT !.st = "exited"], q |-> Tail(q)]} ELSE {})
        \cup
        (IF timer /\ (q = << >> \/ DieExits)
         THEN {[w |-> [w EXCEPT !.st = AfterAlarm], q |-> q]} ELSE {})
        \cup
        (IF timer /\ ~DieExits
         THEN {[w |-> [w EXCEPT !.st = "blocked"], q |-> q]} ELSE {})
        \cup
        (IF w.st = "running" /\ outcome[Target(w.idx)] # "hang"
         THEN {[w |-> [w EXCEPT !.st = "crashed"], q |-> q]} ELSE {})
        \cup
        (IF w.st = "connected"
         THEN {[w |-> [w EXCEPT !.st = IF c \in first.cut THEN "crashed"
                                       ELSE "waiting"],
                q |-> q]}
         ELSE {})

\* a worker of the first call takes its next step during the second call
FirstCallWorker(c) ==
    /\ first.ran
    /\ \E n \in LeftBehind(c) :
        first' = [first EXCEPT !.child[c] = n.w, !.pipes[c] = n.q]
    /\ UNCHANGED <<settings_list, pool_size, multirun_child_timeout,
                   warn_only, quiet_exit, laggards_timeout, outcome,
                   wait_for_arg, loader, wire, wait_for, pc, raised, orch,
                   server, sock, pipes, fds, child, killed, hist>>

TwiceNext ==
    \/ Next
    \/ MultirunAgain
    \/ \E c \in Clients : FirstCallWorker(c)

\* up to two targets, with and without a laggards_timeout; the worker
\* timer is on for calls on at most one target
TwiceInit ==
    /\ settings_list \in {Hosts(n) : n \in 0 .. 2}
    /\ pool_size \in 1 .. 2
    /\ multirun_child_timeout \in
         IF Len(settings_list) <= 1 THEN ChildTimeouts ELSE {0}
    /\ warn_only \in BOOLEAN
    /\ quiet_exit \in BOOLEAN
    /\ laggards_timeout \in {None, PyInt(1), PyFloat(15)}
    /\ wait_for \in {None, PyInt(1)}
    /\ outcome \in [0 .. Len(settings_list) - 1 -> Results]
    /\ ArgsRead
    /\ InitRun

TwiceSpec == TwiceInit /\ [][TwiceNext]_vars

\* ------------------------------------------------- ContextRunner.run
\* fabric.utils.abort: reports the message and ends the process by raising
\* SystemExit
abort == "SystemExit"

\* the failure is only ever warned about
handle_failureWarns(warn) == ""

\* handle_failure(cmd, warn_only): what it raises, "" when it returns
handle_failure(warn) == IF warn THEN "" ELSE abort

\* len(responses): the position of the for loop over settings_list
RunPos == Cardinality(DOMAIN responses)

\* responses = ResponseList.new(settings_list); out = responses.append
RunCall ==
    /\ pc = "call"
    /\ pc' = "run"
    /\ responses' = EmptyMap
    /\ UNCHANGED <<args, wait_for, raised, client_id, idx, done, processes,
                   break_early, total_waited, server, sock, pipes, fds,
                   child, killed, hist>>

\* out(command()) under the settings of the next record
RunCommandReturns ==
    /\ pc = "run"
    /\ RunPos < total
    /\ outcome[settings_list[RunPos + 1]] = "ok"
    /\ responses' = (RunPos :> [kind |-> "ok",
                                target |-> settings_list[RunPos + 1]])
                     @@ responses
    /\ UNCHANGED <<args, wait_for, pc, raised, client_id, idx, done,
                   processes, break_early, total_waited, server, sock, pipes,
                   fds, child, killed, hist>>

\* except Exception, error: out(error); handle_failure(command, warn_only)
RunCommandRaises ==
    /\ pc = "run"
    /\ RunPos < total
    /\ outcome[settings_list[RunPos + 1]] = "fail"
    /\ responses' = (RunPos :> [kind |-> "Exception",
                                target |-> settings_list[RunPos + 1]])
                     @@ responses
    /\ raised' = handle_failure(warn_only)
    /\ pc' = IF handle_failure(warn_only) = "" THEN "run" ELSE "raised"
    /\ UNCHANGED <<args, wait_for, client_id, idx, done, processes,
                   break_early, total_waited, server, sock, pipes, fds,
                   child, killed, hist>>

\* return responses
RunReturn ==
    /\ pc = "run"
    /\ RunPos >= total
    /\ pc' = "returned"
    /\ UNCHANGED <<args, wait_for, raised, orch, server, sock, pipes, fds,
                   child, killed, hist>>

RunNext ==
    \/ RunCall
    \/ RunCommandReturns
    \/ RunCommandRaises
    \/ RunReturn

\* run(command) with a callable command on up to MaxRunTotal records
RunInit ==
    /\ settings_list \in {Hosts(n) : n \in 0 .. MaxRunTotal}
    /\ pool_size = 1
    /\ multirun_child_timeout = 10
    /\ warn_only \in BOOLEAN
    /\ quiet_exit = TRUE
    /\ laggards_timeout = None
    /\ wait_for = None
    /\ outcome \in [0 .. Len(settings_list) - 1 -> Results]
    /\ InitRun

RunSpec == RunInit /\ [][RunNext]_vars

\* -------------------- execute, local, reboot, sudo, run with a string
\* the operations that call fabric's function of the same name for every
\* record, with no except clause around it; "run" here is run with a
\* command string.  pc is the name of the operation while it runs.
Operations == {"execute", "local", "reboot", "run_string", "sudo"}

\* responses = ResponseList.new(settings_list); out = responses.append
OperationCall(op) ==
    /\ pc = "call"
    /\ pc' = op
    /\ responses' = EmptyMap
    /\ UNCHANGED <<args, wait_for, raised, client_id, idx, done, processes,
                   break_early, total_waited, server, sock, pipes, fds,
                   child, killed, hist>>

\* out(e(...)), out(l(...)), out(r(...)), out(s(...)) for the next record
\* when the function returns
OperationReturns(op) ==
    /\ pc = op
    /\ RunPos < total
    /\ outcome[settings_list[RunPos + 1]] = "ok"
    /\ responses' = (RunPos :> [kind |-> "ok",
                                target |-> settings_list[RunPos + 1]])
                     @@ responses
    /\ UNCHANGED <<args, wait_for, pc, raised, client_id, idx, done,
                   processes, break_early, total_waited, server, sock, pipes,
                   fds, child, killed, hist>>

\* the function raises for the next record: nothing is appended and the
\* exception leaves the operation, the responses collected so far with it
OperationRaises(op) ==
    /\ pc = op
    /\ RunPos < total
    /\ outcome[settings_list[RunPos + 1]] = "fail"
    /\ pc' = "raised"
    /\ raised' = "Exception"
    /\ UNCHANGED <<args, wait_for, orch, server, sock, pipes, fds, child,
                   killed, hist>>

\* return responses
OperationEnds(op) ==
    /\ pc = op
    /\ RunPos >= total
    /\ pc' = "returned"
    /\ UNCHANGED <<args, wait_for, raised, orch, server, sock, pipes, fds,
                   child, killed, hist>>

OperationNext ==
    \E op \in Operations :
        \/ OperationCall(op)
        \/ OperationReturns(op)
        \/ OperationRaises(op)
        \/ OperationEnds(op)

\* ------------------------------------------- either operation is called
\* the caller, at pc = "call", calls multirun, run or one of the other
\* sequential operations on the same settings
ApiNext == Next \/ RunNext \/ OperationNext

ApiSpec == Init /\ [][ApiNext]_vars

\* ------------------------------------ settings loader (contrib/tav.py)
\* A dictionary is a function from its keys; d.update(e) is Update(d, e).
Update(d, e) == e @@ d

\* a or b on strings, "" standing for None as well
Or(a, b) == IF a # "" THEN a ELSE b

\* the contexts a caller passes: a tuple of strings
Contexts(s) == [t |-> "tuple", v |-> s]

\* ('.' in context) or (context == 'localhost')
IsHostString(s) == s \in {"a.x", "u@b.x:2222", "localhost"}

\* host_regex.match(s).groupdict() of fabric.network, on the strings used
HostRegex(s) ==
    CASE s = "u@b.x:2222" -> [user |-> "u", host |-> "b.x", port |-> "2222"]
      [] OTHER -> [user |-> "", host |-> s, port |-> ""]

\* two configurations: they differ in the order of the hosts of "web", in
\* its settings, in the defaults and in the host specific settings
ConfigA ==
    [present |-> TRUE,
     default |-> [shell |-> "bash"],
     hostinfo |-> ("a.x" :> [port |-> "2200"]),
     ctxs |-> ("web" :> [hosts |-> <<"a.x", "u@b.x:2222">>,
                          base |-> [user |-> "www"]])]

ConfigB ==
    [present |-> TRUE,
     default |-> EmptyMap,
     hostinfo |-> EmptyMap,
     ctxs |-> ("web" :> [hosts |-> <<"u@b.x:2222", "a.x">>,
                          base |-> EmptyMap])]

Configs == {NoConfig, ConfigA, ConfigB}

Users == {"root", "deploy"}

\* the contexts tuples of the calls; "db" is in no configuration
ContextTuples ==
    {<< >>, <<"a.x">>, <<"web">>, <<"localhost", "u@b.x:2222">>,
     <<"web", "a.x">>, <<"db">>}

ContextArgs == {NoContexts} \cup {Contexts(s) : s \in ContextTuples}

\* not contexts
NullContexts(contexts) == contexts.t = "none" \/ contexts.v = << >>

\* the cache is never consulted
CacheHitNever(contexts) == FALSE

\* contexts in cache
CacheHit(contexts) == contexts.v \in DOMAIN cache

\* not cache: neither an entry nor the '_init' marker
CacheEmpty == DOMAIN cache = {} /\ ~cache_init

\* the record built for a host when there is no env.config
HostOnly(host) ==
    [host_string |-> host,
     host |-> HostRegex(host).host,
     port |-> Or(HostRegex(host).port, "22"),
     user |-> Or(HostRegex(host).user, env_user)]

\* lines 35-43: the hosts among the contexts, the others are skipped
ResolveHosts(v) ==
    LET hs == SelectSeq(v, LAMBDA h : h # "" /\ IsHostString(h))
    IN  [k \in 1 .. Len(hs) |-> HostOnly(hs[k])]

\* get_host_info(context, init) over the dictionaries dflt and hinfo
get_host_info(context, init, dflt, hinfo) ==
    LET info == HostRegex(context)
        r0 == Update(dflt, init)
        r1 == IF info.host \in DOMAIN hinfo
              THEN Update(r0, hinfo[info.host]) ELSE r0
        r2 == IF context \in DOMAIN hinfo
              THEN Update(r1, hinfo[context]) ELSE r1
        r3 == Update(r2, [host |-> info.host, host_string |-> context])
        r4 == IF info.port # "" THEN Update(r3, [port |-> info.port])
              ELSE IF "port" \in DOMAIN r3 THEN r3
              ELSE Update(r3, [port |-> "22"])
    IN  IF info.user # "" THEN Update(r4, [user |-> info.user])
        ELSE IF "user" \in DOMAIN r4 THEN r4
        ELSE Update(r4, [user |-> env_user])

\* some context is neither a host nor a key of config: config[context]
\* raises KeyError
MissingContext(v, config) ==
    \E k \in 1 .. Len(v) :
        ~IsHostString(v[k]) /\ v[k] \notin DOMAIN config.ctxs

\* the records one context contributes (lines 122-141)
ResolveContext(context, config, dflt, hinfo) ==
    IF IsHostString(context)
    THEN <<get_host_info(context, EmptyMap, dflt, hinfo)>>
    ELSE LET base == config.ctxs[context].base
             hosts == config.ctxs[context].hosts
         IN  [k \in 1 .. Len(hosts) |->
                get_host_info(hosts[k], base, dflt, hinfo)]

RECURSIVE ResolveFrom(_, _, _, _, _)
\* the loop over contexts from position k on (lines 101-141)
ResolveFrom(v, k, config, dflt, hinfo) ==
    IF k > Len(v) THEN << >>
    ELSE ResolveContext(v[k], config, dflt, hinfo)
         \o ResolveFrom(v, k + 1, config, dflt, hinfo)

\* the state get_settings leaves and what it returns or raises
Outcome(value, exc, c, ci, d, h, g) ==
    [value |-> value, raised |-> exc, cache |-> c, cache_init |-> ci,
     default |-> d, hostinfo |-> h, get_host_info_set |-> g]

\* cache.setdefault(contexts, responses) as the new cache
SetDefault(contexts, value) == (contexts.v :> value) @@ cache

\* get_settings(contexts)
get_settings(contexts) ==
    IF NullContexts(contexts)
    THEN Outcome(<< >>, "", cache, cache_init, default, hostinfo,
                 get_host_info_set)
    ELSE IF CacheHit(contexts)
    THEN Outcome(cache[contexts.v], "", cache, cache_init, default, hostinfo,
                 get_host_info_set)
    ELSE IF ~env_config.present
    THEN Outcome(ResolveHosts(contexts.v), "",
                 SetDefault(contexts, ResolveHosts(contexts.v)), cache_init,
                 default, hostinfo, get_host_info_set)
    ELSE IF ~CacheEmpty /\ ~get_host_info_set
    THEN Outcome(<< >>, "AttributeError", cache, cache_init, default,
                 hostinfo, get_host_info_set)
    ELSE LET d == IF CacheEmpty THEN Update(default, env_config.default)
                  ELSE default
             h == IF CacheEmpty THEN Update(hostinfo, env_config.hostinfo)
                  ELSE hostinfo
         IN  IF MissingContext(contexts.v, env_config)
             THEN Outcome(<< >>, "KeyError", cache, TRUE, d, h, TRUE)
             ELSE Outcome(ResolveFrom(contexts.v, 1, env_config, d, h), "",
                          SetDefault(contexts,
                              ResolveFrom(contexts.v, 1, env_config, d, h)),
                          TRUE, d, h, TRUE)

\* the module state after a call that ended as o
LoaderBecomes(o) ==
    /\ cache' = o.cache
    /\ cache_init' = o.cache_init
    /\ default' = o.default
    /\ hostinfo' = o.hostinfo
    /\ get_host_info_set' = o.get_host_info_set

\* the first value returned for a contexts tuple is remembered
Remember(contexts, o) ==
    IF o.raised = "" /\ ~NullContexts(contexts)
       /\ contexts.v \notin DOMAIN gs_first
    THEN (contexts.v :> o.value) @@ gs_first
    ELSE gs_first

\* every variable of a multirun call
call_vars == <<settings_list, pool_size, multirun_child_timeout, warn_only,
               quiet_exit, laggards_timeout, outcome, wait_for_arg, first,
               wait_for, pc, raised, orch, server, sock, pipes, fds, child,
               killed, hist>>

\* what the loader and the constructor leave alone
run_vars == <<call_vars, wire>>

\* a caller calls get_settings(contexts)
GetSettingsCall ==
    /\ calls < MaxCalls
    /\ \E contexts \in ContextArgs :
        /\ LoaderBecomes(get_settings(contexts))
        /\ gs_arg' = contexts
        /\ gs_ret' = [called |-> TRUE,
                      value |-> get_settings(contexts).value,
                      raised |-> get_settings(contexts).raised,
                      repeat |-> ~NullContexts(contexts)
                                 /\ contexts.v \in DOMAIN gs_first]
        /\ gs_first' = Remember(contexts, get_settings(contexts))
    /\ calls' = calls + 1
    /\ UNCHANGED <<run_vars, env_config, env_user, env_ctx, runner>>

\* ----------------------------------------------- ContextRunner.__init__
\* the settings keyword of the calls
Keywords ==
    {NoKeyword,
     [given |-> TRUE, v |-> << >>],
     [given |-> TRUE,
      v |-> <<[host_string |-> "c.x", host |-> "c.x", port |-> "22",
               user |-> "root"]>>]}

\* the attributes after `if kwargs and 'settings' in kwargs:`
AfterKeyword(kw) ==
    IF kw.given
    THEN [set |-> TRUE, ctx |-> <<"<sample>">>, settings |-> kw.v]
    ELSE [set |-> FALSE, ctx |-> << >>, settings |-> << >>]

\* the contexts the second statement, `if args: ... else: ...`, resolves:
\* args, or env.ctx when there are no args
ResolvedContexts(cargs) == IF cargs # << >> THEN cargs ELSE env_ctx

\* ContextRunner(*cargs, **kw): both statements of __init__ run, so the
\* attributes the keyword set are assigned again from args, from env.ctx,
\* or as () and [].  self.ctx is assigned before get_settings is called:
\* when that raises, ctx is already the new one and _settings is what the
\* keyword left.
ConstructRunner(kw, cargs) ==
    /\ calls < MaxCalls
    /\ calls' = calls + 1
    /\ IF ResolvedContexts(cargs) = << >>
       THEN /\ runner' = [made |-> TRUE, ctx |-> << >>, settings |-> << >>,
                          kw |-> kw, args |-> cargs, raised |-> "",
                          select |-> ""]
            /\ UNCHANGED <<cache, cache_init, default, hostinfo,
                           get_host_info_set, gs_arg, gs_ret, gs_first>>
       ELSE LET contexts == Contexts(ResolvedContexts(cargs))
                o == get_settings(contexts)
            IN  /\ LoaderBecomes(o)
                /\ gs_arg' = contexts
                /\ gs_ret' = [called |-> TRUE, value |-> o.value,
                              raised |-> o.raised,
                              repeat |-> contexts.v \in DOMAIN gs_first]
                /\ gs_first' = Remember(contexts, o)
                /\ runner' =
                     IF o.raised = ""
                     THEN [made |-> TRUE, ctx |-> contexts.v,
                           settings |-> o.value, kw |-> kw, args |-> cargs,
                           raised |-> "", select |-> ""]
                     ELSE [made |-> FALSE,
                           ctx |-> contexts.v,
                           settings |-> AfterKeyword(kw).settings,
                           kw |-> kw, args |-> cargs,
                           raised |-> o.raised, select |-> ""]
    /\ UNCHANGED <<run_vars, env_config, env_user, env_ctx>>

\* the positional contexts of the constructor calls
RunnerArgs == {<< >>, <<"web">>}

\* the values env.ctx takes
EnvContexts == {<< >>, <<"a.x">>}

\* a caller constructs a ContextRunner
ContextRunnerInit ==
    \E kw \in Keywords, cargs \in RunnerArgs : ConstructRunner(kw, cargs)

\* the filters passed to select: three callables (the whole list, its
\* first record, nothing) and an int
Filters == {"all", "head", "none", "int"}

\* isinstance(filter, int)
IsInstanceIntFilter(f) == f = "int"

ApplyFilter(f, s) ==
    IF f = "all" THEN s
    ELSE IF f = "head" THEN SubSeq(s, 1, Min(1, Len(s)))
    ELSE << >>

\* runner.select(filter).  An int filter: sample(self._settings, count)
\* raises NameError, count being no name of select or of the module, and
\* no runner is constructed.  A callable filter:
\* ContextRunner(settings=filter(self._settings[:]))
Select ==
    /\ runner.made
    /\ \E f \in Filters :
        IF IsInstanceIntFilter(f)
        THEN /\ calls < MaxCalls
             /\ calls' = calls + 1
             /\ runner' = [runner EXCEPT !.select = "NameError"]
             /\ UNCHANGED <<run_vars, env_config, env_user, env_ctx, cache,
                            cache_init, default, hostinfo, get_host_info_set,
                            gs_arg, gs_ret, gs_first>>
        ELSE ConstructRunner([given |-> TRUE,
                              v |-> ApplyFilter(f, runner.settings)],
                             << >>)

\* the fabfile or the command line changes env between two calls
SetEnv ==
    /\ env_config' \in Configs
    /\ env_user' \in Users
    /\ env_ctx' \in EnvContexts
    /\ UNCHANGED <<run_vars, cache, cache_init, default, hostinfo,
                   get_host_info_set, gs_arg, gs_ret, gs_first, calls,
                   runner>>

SettingsNext ==
    \/ GetSettingsCall
    \/ ContextRunnerInit
    \/ Select
    \/ SetEnv

\* the module just imported, under any of the environments
SettingsInit ==
    /\ settings_list = << >>
    /\ pool_size = 1
    /\ multirun_child_timeout = 10
    /\ warn_only = FALSE
    /\ quiet_exit = FALSE
    /\ laggards_timeout = None
    /\ wait_for = None
    /\ outcome = EmptyMap
    /\ InitCall
    /\ LoaderFresh
    /\ wire = NoWire
    /\ env_config \in Configs
    /\ env_user \in Users
    /\ env_ctx \in EnvContexts

SettingsSpec == SettingsInit /\ [][SettingsNext]_vars

\* ------------------------------------------- the control pipe encoding
\* the indices followed through the pipe: every index a pack('H') can
\* carry, and MaxOver more
PipeIndices == 0 .. USHRT_MAX - 1 + MaxOver

\* idx + 1 fits an unsigned short
Fits(i) == i + 1 <= USHRT_MAX

\* write(to_child, pack('H', idx)) for the work index wire.i: beyond
\* USHRT_MAX pack raises struct.error and nothing is written
PackIndex ==
    /\ wire.st = "index"
    /\ wire' = IF Fits(wire.i)
               THEN [wire EXCEPT !.st = "written", !.v = EncodeIndex(wire.i)]
               ELSE [wire EXCEPT !.st = EncodeIndex(wire.i)]
    /\ UNCHANGED <<call_vars, loader>>

\* data = read(from_parent, index_header_size);
\* idx = unpack('H', data)[0] - 1
UnpackIndex ==
    /\ wire.st = "written"
    /\ wire' = [wire EXCEPT !.st = "read", !.d = DecodeIndex(wire.v)]
    /\ UNCHANGED <<call_vars, loader>>

CodecNext == PackIndex \/ UnpackIndex

CodecInit ==
    /\ settings_list = << >>
    /\ pool_size = 1
    /\ multirun_child_timeout = 10
    /\ warn_only = FALSE
    /\ quiet_exit = FALSE
    /\ laggards_timeout = None
    /\ wait_for = None
    /\ outcome = EmptyMap
    /\ InitCall
    /\ LoaderFresh
    /\ env_config = NoConfig
    /\ env_user = "root"
    /\ env_ctx = << >>
    /\ wire \in {[st |-> "index", i |-> i, v |-> << >>, d |-> 0] :
                    i \in PipeIndices}

CodecSpec == CodecInit /\ [][CodecNext]_vars

\* ------------------------------------------------------------- fairness
\* the orchestrator process keeps running, and its alarm goes off
Orchestrator ==
    \/ MultirunEmpty
    \/ MultirunValueError
    \/ MultirunStart
    \/ Fork
    \/ Spawn
    \/ InitResponses
    \/ TimeoutBreak
    \/ TimeoutBreakAccepted
    \/ TimeoutContinueAccepted
    \/ AcceptBreak
    \/ AcceptAlarm
    \/ Redispatch
    \/ Retire
    \/ ReportKeyError
    \/ Teardown

\* a forked worker keeps running and its alarm is delivered; a command that
\* hangs never reports
ChildStep(c) ==
    /\ c \in Clients
    /\ \/ ChildRetire(c)
       \/ ChildRead(c)
       \/ ChildReadAlarm(c)
       \/ ChildConnect(c)
       \/ ChildReport(c)
       \/ ChildSendFails(c)
       \/ ChildConnectFails(c)
       \/ ChildIdleTimeout(c)
       \/ ChildAlarmSpent(c)

Fairness ==
    /\ WF_vars(Orchestrator)
    /\ \A c \in 0 .. 3 : WF_vars(ChildStep(c))

FairScenSpec == InitScen /\ [][Next]_vars /\ Fairness

\* the scenarios over at most three targets
InitIdle ==
    /\ \/ ScenPartial
       \/ ScenRejected
       \/ ScenStrict
    /\ InitRun

FairIdleSpec == InitIdle /\ [][Next]_vars /\ Fairness

\* ------------------------------------------------------------ properties
\* the writes of work indices, in the order they were made
WorkWrites == SelectSeq(log, LAMBDA e : e[2] # RetireValue)

\* the indices written to some control pipe so far
Dispatched == {DecodeIndex(WorkWrites[k][2]) : k \in 1 .. Len(WorkWrites)}

\* dispatched to a worker, result not yet recorded by the orchestrator
InFlight == Dispatched \ recorded

\* the response of running the command under settings_list[i]
Expected(i) == MakeResponse(outcome[Target(i)], Target(i), warn_only)

\* the call is over, by return or by an exception other than ValueError
Ended == pc = "returned" \/ (pc = "raised" /\ raised # "ValueError")

EveryCommandCompletes == \A i \in 0 .. total - 1 : outcome[i] # "hang"

Aligned ==
    /\ DOMAIN responses = 0 .. total - 1
    /\ \A i \in 0 .. total - 1 : responses[i] = Expected(i)

\* C1: for a non-empty settings list and any pool size, when every command
\* completes and no laggard timeout fires, multirun returns a ResponseList
\* of length total whose entry i is the response of running the command
\* under settings_list[i], whatever the order of the workers' reports.
C1_AlignedResult ==
    (/\ Ended
     /\ total >= 1
     /\ EveryCommandCompletes
     /\ break_early = 0
     /\ raised # "TimeoutException")
    => (pc = "returned" /\ Aligned)

\* the workers that are running the command
Running == {c \in Clients : child[c].st = "running"}

\* C2: the number of work units dispatched to a worker and not yet recorded
\* by the orchestrator never exceeds pool_size, and neither does the number
\* of workers running the command at the same time.
C2_InFlightBounded ==
    /\ Cardinality(InFlight) <= pool_size
    /\ Cardinality(Running) <= pool_size

C2_Witness ==
    /\ pool_size < total
    /\ done >= 1
    /\ Cardinality(InFlight) = pool_size

\* C3: the work indices written to the control pipes are 0, 1, 2, ... in
\* increasing order, none skipped or repeated, never beyond total - 1; and
\* a run that returns without breaking early has written every one of them.
C3_DispatchInOrder ==
    /\ \A k \in 1 .. Len(WorkWrites) : DecodeIndex(WorkWrites[k][2]) = k - 1
    /\ Len(WorkWrites) <= total
    /\ (pc = "returned" /\ break_early = 0) => Len(WorkWrites) = total

C3_Witness ==
    /\ pc = "returned"
    /\ break_early = 0
    /\ pool_size < total
    /\ Len(WorkWrites) = total

\* the indices of the reports the orchestrator accepted
Received == recorded \cup {r[2] : r \in {q \in dropped : q[2] >= 0}}

\* C4: when a laggard-mode run breaks out of the loop early, the returned
\* list still has length total; an index whose result was recorded holds
\* that response, and an index whose result was never received (never
\* dispatched included) holds TIMEOUT.
C4_EarlyBreakResult ==
    (pc = "returned" /\ break_early = 1)
    => /\ DOMAIN responses = 0 .. total - 1
       /\ \A i \in 0 .. total - 1 :
            /\ i \in recorded => responses[i] = Expected(i)
            /\ i \notin Received => responses[i] = TIMEOUT

C4_Witness ==
    /\ pc = "returned"
    /\ break_early = 1
    /\ recorded # {}
    /\ Dispatched \ Received # {}
    /\ (0 .. total - 1) \ Dispatched # {}

\* C5: a failure of the command for one target is recorded as an Error at
\* that target's index only and never aborts the run: every other target
\* is still dispatched, completes and has its response at its own index.
C5_FailureIsolated ==
    (/\ Ended
     /\ ~LaggardMode
     /\ EveryCommandCompletes
     /\ \E j \in 0 .. total - 1 : outcome[j] = "fail")
    => /\ pc = "returned"
       /\ DOMAIN responses = 0 .. total - 1
       /\ \A i \in 0 .. total - 1 :
            /\ responses[i].target = Target(i)
            /\ IsError(responses[i]) <=> outcome[i] = "fail"
            /\ responses[i].kind = "ok" <=> outcome[i] = "ok"

\* C6: multirun on an empty settings list returns an empty ResponseList at
\* once: no result socket, no worker forked, nothing written to a pipe.
C6_EmptyReturnsAtOnce ==
    total = 0
    => /\ pc \in {"call", "returned"}
       /\ server = "none"
       /\ \A c \in Clients : child[c].st = "none"
       /\ log = << >>
       /\ pc = "returned" => DOMAIN responses = {}

C6_Witness == total = 0 /\ pc = "returned"

\* a laggards_timeout was supplied and is not a positive integer
NotPositiveInt(x) == x # None /\ ~(x.t = "int" /\ x.v > 0)

\* a float outside [0.0, 1.0]
FloatOutOfRange(x) == x.t = "float" /\ (x.v < 0 \/ x.v > 10)

\* C7: for a non-empty settings list, multirun raises the invalid-argument
\* error before any worker is spawned whenever laggards_timeout is not a
\* positive integer (zero, negative, non-integer) and whenever wait_for is
\* a float outside [0.0, 1.0]; no socket or worker is created.
C7_InvalidArgsRejected ==
    (/\ total >= 1
     /\ NotPositiveInt(laggards_timeout) \/ FloatOutOfRange(wait_for)
     /\ pc # "call")
    => /\ pc = "raised"
       /\ raised = "ValueError"
       /\ server = "none"
       /\ \A c \in Clients : child[c].st = "none"

\* a worker ended on its own idle timer with a work index it was handed
\* still unreported: that command did not complete
WorkerLost ==
    \E c \in Clients :
        /\ child[c].st \in {"exited", "crashed"}
        /\ \E k \in 1 .. Len(log) :
             /\ log[k][1] = c
             /\ log[k][2] # RetireValue
             /\ \A m \in 1 .. Len(sent) : sent[m][2] # DecodeIndex(log[k][2])

\* C8: total = 10, pool_size = 4, wait_for = 0.5, a laggards_timeout, and
\* targets 5-9 never completing: multirun eventually returns, with the
\* responses of targets 0-4 at 0-4 and TIMEOUT at 5-9, under every
\* interleaving of the workers' reports in which no worker is lost before
\* it ran a target it was handed.
C8_LaggardsDiscarded ==
    ScenLaggards
    => <>(\/ WorkerLost
          \/ /\ pc = "returned"
             /\ DOMAIN responses = 0 .. 9
             /\ \A i \in 0 .. 9 :
                   responses[i] = IF i < 5 THEN Expected(i) ELSE TIMEOUT)

\* C9: when pool_size >= total, every index is dispatched exactly once,
\* index k to worker k, all of them before any worker is sent the
\* retirement value; no worker receives a second work index.
C9_OneIndexPerWorker ==
    pool_size >= total
    => \A k \in 1 .. Len(log) :
         IF log[k][2] # RetireValue
         THEN log[k][1] = k - 1 /\ DecodeIndex(log[k][2]) = k - 1
         ELSE k > total

C9_Witness ==
    /\ pool_size >= total
    /\ total >= 2
    /\ \E k \in 1 .. Len(log) : log[k][2] = RetireValue

\* the number of work indices written to worker c's pipe
WritesTo(c) == Len(SelectSeq(WorkWrites, LAMBDA e : e[1] = c))

\* no slot is left at its placeholder
Complete ==
    /\ DOMAIN responses = 0 .. total - 1
    /\ \A i \in 0 .. total - 1 : responses[i].kind \notin {"TIMEOUT", "None"}

\* C10 as claimed: with total = 6 and pool_size = 2, no failure and no
\* timeout, each of the two workers receives exactly 3 work indices, and
\* the final list has length 6 with no TIMEOUT or unset entry.
C10_ThreeWavesEach ==
    (ScenWaves /\ pc = "returned")
    => /\ WritesTo(0) = 3
       /\ WritesTo(1) = 3
       /\ Complete

\* C10 as amended: with total = 6 and pool_size = 2, no failure and no
\* timeout, the two workers together receive exactly 6 work indices, each
\* worker at least 1 and at most 5 depending on the completion order, and
\* the list multirun returns has length 6 with no TIMEOUT or unset entry.
C10_SixDispatches ==
    (ScenWaves /\ pc = "returned")
    => /\ WritesTo(0) + WritesTo(1) = 6
       /\ WritesTo(0) \in 1 .. 5
       /\ WritesTo(1) \in 1 .. 5
       /\ Complete

C10_Witness ==
    /\ ScenWaves
    /\ pc = "returned"
    /\ WritesTo(0) = 5
    /\ Complete

\* the orchestrator has stored the error of a failed target under
\* warn_only = False
FailureRecorded ==
    /\ ~warn_only
    /\ \E i \in recorded : IsError(responses[i])

\* C11: under warn_only = False the first failure is stored as an Error in
\* its target's slot, the targets in flight are left to finish (no worker
\* is killed), and once that failure is stored the orchestrator writes no
\* further work index to any worker.
C11_StopsDispatchAfterFailure ==
    [][/\ \A i \in recorded' :
            outcome[Target(i)] = "fail" => IsError(responses'[i])
       /\ ~LaggardMode => killed' = {}
       /\ FailureRecorded => WorkWrites' = WorkWrites]_vars

\* the positions of settings_list whose command raises
Failing == {k \in 0 .. total - 1 : outcome[settings_list[k + 1]] = "fail"}

\* C12: run with a callable executes the targets one after the other in
\* settings order (the k-th response is that of settings_list[k], nothing
\* beyond a target still executing); with warn_only true a failure is
\* appended as its target's response and the run goes on to return a list
\* of length total; with warn_only false the run aborts at the first
\* failing target, whose error is the last response, and no later target
\* is executed.
C12_RunSequential ==
    /\ DOMAIN responses = 0 .. RunPos - 1
    /\ RunPos <= total
    /\ \A k \in DOMAIN responses :
         /\ responses[k].target = settings_list[k + 1]
         /\ responses[k].kind =
              (IF k \in Failing THEN "Exception" ELSE "ok")
         /\ outcome[settings_list[k + 1]] # "hang"
    /\ warn_only =>
         /\ pc # "raised"
         /\ pc = "returned" => RunPos = total
    /\ ~warn_only =>
         /\ \A k \in DOMAIN responses : \A j \in Failing : k <= j
         /\ (\E k \in DOMAIN responses : k \in Failing)
              <=> (pc = "raised" /\ raised = "SystemExit")
         /\ pc = "returned" => (RunPos = total /\ Failing = {})

C12_Witness ==
    /\ ~warn_only
    /\ pc = "raised"
    /\ RunPos = 2
    /\ total >= 3

\* a response counts as failed, in the words of C13: it is an error value (a
\* captured exception, the abort error included) or carries a true failure
\* flag
CountsAsFailed(resp) ==
    IsError(resp) \/ (HasFlags(resp) /\ FailedFlag(resp))

\* the response is no error value and carries its success flag
CarriesSuccess(resp) ==
    ~IsError(resp) /\ HasFlags(resp) /\ SucceededFlag(resp)

\* C13: on every list multirun returns, failed(responses) is true iff some
\* response counts as failed and succeeded(responses) is true iff no
\* response is an error and every response carries its success flag; a list
\* holding TIMEOUT or an error captured from a worker (the abort error under
\* warn_only = False included) is failed and not succeeded, and neither
\* function raises.
C13_Classification ==
    pc = "returned"
    => /\ failed(responses) =
            (IF \E i \in DOMAIN responses : CountsAsFailed(responses[i])
             THEN "True" ELSE "False")
       /\ succeeded(responses) =
            (IF \A i \in DOMAIN responses : CarriesSuccess(responses[i])
             THEN "True" ELSE "False")

\* C14 as claimed: two calls of multirun with the same deterministic command,
\* settings list, pool size and arguments return lists that agree at every
\* index on the success/failure classification, whatever the interleaving
\* of the workers in either call.
C14_TwoRunsAgree ==
    (first.ran /\ pc = "returned") => Classes = first.classes

\* C14 as amended: the two lists agree at every index on the classification
\* whenever both calls return and neither left its loop early on a laggard
\* timeout; an index whose response failed and succeeded cannot classify
\* (the abort error) is one in both lists.
C14_TwoFullRunsAgree ==
    (/\ first.ran
     /\ pc = "returned"
     /\ first.early = 0
     /\ break_early = 0)
    => Classes = first.classes

C14_Witness ==
    /\ first.ran
    /\ pc = "returned"
    /\ first.early = 0
    /\ break_early = 0
    /\ total = 2
    /\ pool_size = 2
    /\ Classes = (0 :> "failed" @@ 1 :> "succeeded")
    /\ sent[1][2] = 1

\* C15: when a laggard-mode run has left its loop early and returned, the
\* result socket is closed and its path removed, and every worker that was
\* still active has been terminated and both of its control-pipe handles
\* are closed in the orchestrator.
C15_EarlyBreakReleases ==
    (pc = "returned" /\ break_early = 1)
    => /\ server = "closed"
       /\ \A c \in DOMAIN processes :
            /\ ~Alive(c)
            /\ c \in killed
            /\ c \notin fds

\* a laggards_timeout the validation accepts and the loop acts on
LaggardsConfigured ==
    /\ IsInstanceInt(laggards_timeout)
    /\ laggards_timeout.v > 0
    /\ ~BadWaitFor

\* C16: whenever a laggards_timeout is configured, the orchestrator loop is
\* eventually left and the call of multirun comes to an end, even if some
\* workers never report, whatever wait_for is and however many reports
\* were received.
C16_LoopExits ==
    (LaggardsConfigured /\ pc = "call")
    => <>(pc \in {"returned", "raised"})

\* a fault of the setup has left multirun
SetupFault == pc = "raised" /\ raised \in {"socket.error", "OSError"}

\* C17: when creating the result socket or forking a worker fails part-way
\* through the setup, the fault reaches the caller of multirun only after
\* every worker already forked has been terminated and the socket and the
\* pipes already created have been closed.
C17_SetupFaultCleansUp ==
    SetupFault
    => /\ server \in {"none", "closed"}
       /\ \A c \in Clients : ~Alive(c)
       /\ fds = {}

\* k is the least integer not below (tenths / 10) * n
IsCeil(k, tenths, n) == 10 * k >= tenths * n /\ 10 * (k - 1) < tenths * n

\* _multirun has been entered (an empty settings list returns before it)
Started ==
    total >= 1 /\ pc \in {"spawn", "forked", "loop", "teardown", "returned"}

\* C18: in a laggard-mode run (the only one whose loop reads wait_for), a
\* wait_for passed as a fraction f in [0.0, 1.0] has become the count
\* ceil(f * total) before the run starts; an integer wait_for is always left
\* as it was passed; and that count is the threshold of the loop: with a
\* non-zero count, no run leaves the loop early before that many reports
\* were recorded.
C18_WaitForCount ==
    /\ (Started /\ LaggardMode /\ IsInstanceFloat(wait_for_arg))
        => /\ IsInstanceInt(wait_for)
           /\ IsCeil(wait_for.v, wait_for_arg.v, total)
    /\ IsInstanceInt(wait_for_arg) => wait_for = wait_for_arg
    /\ (break_early = 1 /\ wait_for_arg.t # "none")
        => \E k \in 0 .. 10 * total :
             /\ IF IsInstanceFloat(wait_for_arg)
                THEN IsCeil(k, wait_for_arg.v, total)
                ELSE k = wait_for_arg.v
             /\ k > 0 => done >= k

C18_Witness ==
    /\ wait_for_arg = PyFloat(5)
    /\ total = 3
    /\ pc = "returned"
    /\ break_early = 1
    /\ done = 2

\* the work indices worker c has read from its control pipe
ReadBy(c) ==
    {DecodeIndex(log[k][2]) : k \in
        {j \in 1 .. Len(log) :
            /\ log[j][1] = c
            /\ log[j][2] # RetireValue
            /\ \A m \in 1 .. Len(pipes[c]) : pipes[c][m] # log[j][2]}}

\* the reports worker c has sent for index i
ReportsOf(c, i) == {k \in 1 .. Len(sent) : sent[k][1] = c /\ sent[k][2] = i}

\* worker c is not done with index i: it is running the command or is
\* between connect() and send(), the command never comes back, or the
\* orchestrator has killed the worker
Unfinished(c, i) ==
    \/ outcome[Target(i)] = "hang"
    \/ child[c].idx = i /\ child[c].st \in {"running", "connected", "killed"}

\* C19: every work index a worker has received gives exactly one report
\* (worker, index, response) on the result socket once its command has
\* returned or raised, for warn_only true and false alike: a failure is
\* sent as an error response for that index, and no worker exits or takes
\* another index without having reported.
C19_OneReportPerIndex ==
    \A c \in Clients : \A i \in ReadBy(c) :
        /\ Cardinality(ReportsOf(c, i)) <= 1
        /\ ~Unfinished(c, i) => Cardinality(ReportsOf(c, i)) = 1
        /\ \A k \in ReportsOf(c, i) :
             /\ sent[k][3].target = Target(i)
             /\ IsError(sent[k][3]) <=> outcome[Target(i)] = "fail"

\* worker c has read the retirement value from its control pipe
ReadRetire(c) ==
    /\ \E k \in 1 .. Len(log) : log[k] = <<c, RetireValue>>
    /\ \A m \in 1 .. Len(pipes[c]) : pipes[c][m] # RetireValue

\* C20: a worker that has read the retirement value (0) from its control
\* pipe has terminated: it does not run the command again and sends no
\* further report, whatever the arguments of the run (quiet_exit included).
C20_RetiredWorkerStops ==
    \A c \in Clients :
        ReadRetire(c)
        => /\ child[c].st \in {"exited", "killed"}
           /\ \A k \in 1 .. Len(sent) : sent[k][1] = c => sent[k][2] >= 0

\* worker c is blocked in read with nothing to read, and the orchestrator
\* is gone: no message will arrive
Stranded(c) ==
    /\ c \in Clients
    /\ InRead(c)
    /\ pipes[c] = << >>
    /\ pc \in {"returned", "raised"}

\* worker c is over
Terminated(c) ==
    /\ c \in Clients
    /\ child[c].st \in {"exited", "crashed", "killed"}

\* C21: a worker waiting for its next index with no message coming
\* terminates when the idle timeout goes off, whatever the arguments of the
\* run (quiet_exit included); and a worker that has terminated never runs
\* the command or sends a report afterwards.
C21_IdleWorkerTerminates ==
    /\ \A c \in 0 .. 3 : Stranded(c) ~> Terminated(c)
    /\ [][\A c \in Clients :
            Terminated(c)
            => /\ child'[c] = child[c]
               /\ \A k \in Len(sent) + 1 .. Len(sent') : sent'[k][1] # c]_vars

\* the values written to worker c's control pipe, in order
WrittenTo(c) == SelectSeq(log, LAMBDA e : e[1] = c)

\* the number of retirement values written to worker c
Retirements(c) == Len(SelectSeq(WrittenTo(c), LAMBDA e : e[2] = RetireValue))

\* the loop was left because done reached total
NormalCompletion ==
    /\ pc = "returned"
    /\ total >= 1
    /\ done = total

\* C22: when the loop exits with done = total, every spawned worker has
\* been written the retirement value exactly once, as the last thing it was
\* written, the table of active workers is empty with every pipe handle
\* closed, the result socket is closed and no worker was killed.
C22_NormalCompletion ==
    NormalCompletion
    => /\ \A c \in 0 .. PoolWorkers - 1 :
            /\ Retirements(c) = 1
            /\ WrittenTo(c)[Len(WrittenTo(c))][2] = RetireValue
       /\ processes = EmptyMap
       /\ fds = {}
       /\ server = "closed"
       /\ sock = << >>
       /\ killed = {}
       /\ \A c \in Clients : child[c].st # "killed"

C22_Witness ==
    /\ NormalCompletion
    /\ total = 2
    /\ PoolWorkers = 2
    /\ LaggardMode

\* worker c was dispatched an index whose result has not been recorded
HoldsUnrecorded(c) ==
    \E k \in 1 .. Len(log) :
        /\ log[k][1] = c
        /\ log[k][2] # RetireValue
        /\ DecodeIndex(log[k][2]) \notin recorded

\* the loop was left early and the teardown has run
EarlyBreakDone == pc = "returned" /\ break_early = 1

\* C23: after an early break the workers that were sent SIGTERM are exactly
\* the workers dispatched an index whose result was not recorded; no
\* retired worker is signalled, and no worker holding an unrecorded index
\* is still running.
C23_KilledAreTheLaggards ==
    EarlyBreakDone
    => /\ killed = {c \in Clients : HoldsUnrecorded(c)}
       /\ \A c \in killed : Retirements(c) = 0
       /\ \A c \in Clients : HoldsUnrecorded(c) => ~Alive(c)

C23_Witness ==
    /\ EarlyBreakDone
    /\ killed # {}
    /\ \E c \in Clients : Retirements(c) = 1 /\ c \notin killed
    /\ \E c \in killed : child[c].st = "killed"

\* the step records a report
Records == done' = done + 1 /\ pc = "loop" /\ sock # << >>

\* C24: in the step that records a result from worker w, w is either
\* written the next undispatched index (when idx < total) or written the
\* retirement value and removed from the table of active workers.
C24_RecordThenReassign ==
    [][Records
       => \/ /\ idx < total
             /\ idx' = idx + 1
             /\ ReportClient \in DOMAIN processes'
             /\ processes'[ReportClient].idx = idx
             /\ pipes'[ReportClient]
                  = Append(pipes[ReportClient], EncodeIndex(idx))
          \/ /\ idx >= total
             /\ idx' = idx
             /\ ReportClient \notin DOMAIN processes'
             /\ pipes'[ReportClient]
                  = Append(pipes[ReportClient], RetireValue)]_vars

\* the orchestrator is blocked in accept() under alarm(laggards_timeout)
\* and no report is waiting: the alarm goes off
WaitTimesOut ==
    /\ pc = "loop"
    /\ done < total
    /\ LaggardMode
    /\ laggards_timeout.v > 0
    /\ sock = << >>

\* C25: in laggard mode with wait_for unset, a wait on the result channel
\* that times out makes the orchestrator leave the loop at once with
\* break_early set, whatever the value of done: the break is the only way
\* the timeout is handled, and it changes nothing else.
C25_TimeoutBreaksAtOnce ==
    /\ [](WaitTimesOut /\ wait_for = None
          => ENABLED TimeoutBreak /\ ~ENABLED TimeoutContinue)
    /\ [][WaitTimesOut /\ wait_for = None /\ pc' # pc
          => /\ pc' = "teardown"
             /\ break_early' = 1
             /\ done' = done
             /\ responses' = responses]_vars

C25_Witness ==
    /\ pc = "teardown"
    /\ break_early = 1
    /\ wait_for = None
    /\ dropped = {}
    /\ done >= 1
    /\ done < total

\* the orchestrator takes a report off the accept queue
Accepts == pc = "loop" /\ done < total /\ sock # << >> /\ sock' = Tail(sock)

\* the accepted report is lost to the except clause: the wait timed out
\* with the connection already taken
DropsOnTimeout ==
    /\ Accepts
    /\ done' = done
    /\ total_waited' = total_waited
    /\ raised' = raised

\* a report is waiting for accept() in a laggard-mode run with wait_for given
AcceptReady ==
    /\ pc = "loop"
    /\ done < total
    /\ LaggardMode
    /\ wait_for # None
    /\ sock # << >>

\* C26: in laggard mode with wait_for given, a wait made with
\* done >= wait_for is timed and added to total_waited, so that a long
\* enough wait ends the loop early; the loop is left early exactly when
\* total_waited exceeds laggards_timeout after such a wait, or when a single
\* such wait times out; a wait made with done < wait_for adds nothing.
C26_AccumulatesPastWaitFor ==
    /\ [](AcceptReady /\ done >= wait_for.v => ENABLED AcceptBreak)
    /\ [](WaitTimesOut /\ wait_for # None /\ done >= wait_for.v
          => ENABLED TimeoutBreak /\ ~ENABLED TimeoutContinue)
    /\ [][AcceptReady /\ DropsOnTimeout
          => /\ total_waited' = total_waited
             /\ break_early' = 1 <=> done >= wait_for.v]_vars
    /\ [][AcceptReady /\ Accepts /\ ~DropsOnTimeout
          => /\ done < wait_for.v
                => total_waited' = total_waited /\ break_early' = 0
             /\ done >= wait_for.v
                => /\ total_waited' >= total_waited
                   /\ break_early' = 1 <=> total_waited' > laggards_timeout.v
         ]_vars

\* len(responses)
ResponsesLen == Cardinality(DOMAIN responses)

\* the response container of the call has been created
ContainerExists ==
    \/ pc \in {"run", "loop", "teardown", "returned"} \cup Operations
    \/ pc = "raised" /\ raised \in {"KeyError", "SystemExit", "Exception"}

\* C27: the response container has length total at every point of a call,
\* sequential (run, local, sudo, execute) or parallel, while results are
\* collected and when the call aborts.
C27_LengthAlwaysTotal == ContainerExists => ResponsesLen = total

\* the step reads the accepted report and goes on to store its response
ReadsReport ==
    /\ Accepts
    /\ ~DropsOnTimeout
    /\ break_early' = break_early
    /\ raised' # "TimeoutException"

\* C28: storing a response at an index outside 0 .. total - 1 fails with
\* IndexError and leaves the response array unchanged; a report carrying a
\* negative index never overwrites an entry of the array.
C28_OutOfRangeStoreFails ==
    [][ReadsReport /\ ReportIndex \notin 0 .. total - 1
       => /\ responses' = responses
          /\ done' = done
          /\ pc' = "raised"
          /\ raised' = "IndexError"]_vars

\* some worker was sent SIGTERM by the orchestrator
SomeKilled == killed # {} \/ \E c \in Clients : child[c].st = "killed"

\* C29: a worker is sent SIGTERM only on the early exit of a laggard-mode
\* run: in a run without laggards_timeout, and in a laggard-mode run whose
\* loop ends with done = total, no worker is ever signalled.
C29_KillOnlyOnEarlyExit ==
    SomeKilled
    => /\ LaggardMode
       /\ break_early = 1
       /\ done < total
       /\ pc = "returned"

C29_Witness ==
    /\ NormalCompletion
    /\ LaggardMode
    /\ ~SomeKilled
    /\ \E c \in Clients : Alive(c)

\* the workers forked so far
Spawned == {c \in Clients : child[c].st # "none"}

\* the spawn loop has run to its end
SetupDone ==
    \/ pc = "spawn" /\ client_id >= PoolWorkers
    \/ pc \in {"loop", "teardown"}
    \/ pc = "returned" /\ total >= 1
    \/ pc = "raised" /\ raised = "KeyError"

\* the orchestrator has taken no report off the result socket yet
NothingAccepted == done = 0 /\ recorded = {} /\ dropped = {}

\* C30: setup forks exactly min(pool_size, total) workers, one at a time:
\* worker k is forked when workers 0 .. k-1 have their first index, and the
\* first thing written to worker k is index k; these writes come before
\* the orchestrator accepts any result; when setup ends the next
\* undispatched index is min(pool_size, total).
C30_SetupAssignsInitialIndices ==
    /\ pc \in {"spawn", "forked"}
       => /\ NothingAccepted
          /\ client_id <= Min(pool_size, total)
          /\ idx = client_id
          /\ Len(log) = client_id
          /\ DOMAIN processes = 0 .. client_id - 1
    /\ pc = "spawn" => Spawned = 0 .. client_id - 1
    /\ pc = "forked"
       => /\ client_id < Min(pool_size, total)
          /\ Spawned = 0 .. client_id
          /\ pipes[client_id] = << >>
    /\ SetupDone
       => /\ Spawned = 0 .. Min(pool_size, total) - 1
          /\ Len(log) >= Min(pool_size, total)
          /\ \A k \in 0 .. Min(pool_size, total) - 1 :
                /\ log[k + 1][1] = k
                /\ DecodeIndex(log[k + 1][2]) = k
    /\ SetupDone /\ NothingAccepted /\ pc # "returned"
       => /\ idx = Min(pool_size, total)
          /\ Len(log) = Min(pool_size, total)
          /\ \A k \in DOMAIN processes : processes[k].idx = k

C30_Witness ==
    /\ pc = "loop"
    /\ NothingAccepted
    /\ pool_size = 2
    /\ total = 2
    /\ idx = 2
    /\ sock # << >>

\* C31: get_settings returns an empty list for null or empty contexts, and
\* a call with a contexts tuple that was resolved before returns the very
\* settings sequence its first resolution returned, same records in the
\* same order, whatever env has become in between.
C31_Memoized ==
    gs_ret.called
    => /\ NullContexts(gs_arg)
          => gs_ret.value = << >> /\ gs_ret.raised = ""
       /\ gs_ret.repeat
          => gs_ret.raised = "" /\ gs_ret.value = gs_first[gs_arg.v]

C31_Witness ==
    /\ gs_ret.called
    /\ gs_ret.repeat
    /\ gs_arg.v = <<"web">>
    /\ env_config = ConfigB
    /\ Len(gs_ret.value) = 2
    /\ gs_ret.value[1].host = "a.x"
    /\ gs_ret.value[1].port = "2200"
    /\ gs_ret.value[2].host_string = "u@b.x:2222"

\* a ContextRunner was constructed with the settings keyword and no
\* positional contexts
KeywordOnly == runner.made /\ runner.kw.given /\ runner.args = << >>

\* C38: a ContextRunner constructed with settings=<list> and no positional
\* contexts, as select does, has exactly that list as its settings,
\* whatever env.ctx is.
C38_KeywordSettingsUsed == KeywordOnly => runner.settings = runner.kw.v

\* len(processes)
Active == Cardinality(DOMAIN processes)

\* the orchestrator is between two iterations of its loop, or past it
IterationBoundary ==
    \/ pc \in {"loop", "teardown"}
    \/ pc = "returned" /\ total >= 1

\* C32: at every iteration boundary of the orchestrator loop, done plus
\* the number of workers in processes equals the number of indices
\* dispatched (idx); the number of active workers never exceeds
\* min(pool_size, total) and never grows after setup.
C32_DonePlusActiveIsDispatched ==
    /\ [](IterationBoundary
          => /\ done + Active = idx
             /\ Active <= Min(pool_size, total)
             /\ idx <= total)
    /\ [][IterationBoundary
          => Cardinality(DOMAIN processes') <= Active]_vars

C32_Witness ==
    /\ pc = "loop"
    /\ done = 1
    /\ Active = 1
    /\ idx = 2
    /\ pool_size = 2

\* slot i of responses holds a reported response, no placeholder
Reported(i) == responses[i] # TIMEOUT /\ responses[i] # Unset

\* C33: no index is recorded twice: done always equals the number of
\* distinct indices whose response has been stored, so that when the loop
\* exits with done = total every index holds a reported response; for
\* every value of quiet_exit.
C33_NoIndexRecordedTwice ==
    /\ done = Cardinality(recorded)
    /\ NormalCompletion => \A i \in 0 .. total - 1 : Reported(i)

\* C34: every report the orchestrator accepts is read and stored before
\* the loop exits: none is discarded, and at return no index whose report
\* was accepted still holds TIMEOUT.
C34_AcceptedIsStored ==
    /\ dropped = {}
    /\ pc = "returned"
       => \A r \in dropped : responses[PyIndex(r[2], total)] # TIMEOUT

\* a laggard-mode call past its setup with a wait_for of at least 1
WaitForAtLeastOne ==
    /\ LaggardMode
    /\ total >= 1
    /\ pc \in {"loop", "teardown", "returned"}
    /\ wait_for # None
    /\ wait_for.v >= 1

\* the indices holding a reported response
ReportedIndices == {i \in DOMAIN responses : Reported(i)}

\* C35: in laggard mode with wait_for = w >= 1 the orchestrator never
\* breaks early while done < w: a wait that times out with done < w is
\* only restarted, and whenever multirun returns at least min(w, total)
\* indices hold a reported response.
C35_NoBreakBeforeWaitFor ==
    WaitForAtLeastOne
    => /\ WaitTimesOut /\ done < wait_for.v
          => ENABLED TimeoutContinue /\ ~ENABLED TimeoutBreak
       /\ break_early = 1 => done >= wait_for.v
       /\ pc = "returned"
          => Cardinality(ReportedIndices) >= Min(wait_for.v, total)

C35_Witness ==
    /\ WaitForAtLeastOne
    /\ pc = "returned"
    /\ break_early = 1
    /\ wait_for.v = 2
    /\ total = 3
    /\ Cardinality(ReportedIndices) = 2
    /\ dropped = {}

\* C36: whenever the orchestrator receives a report (client_id, resp_idx,
\* response), client_id is a key of processes and resp_idx is the index
\* most recently dispatched to that worker; no report of an already
\* retired worker ever arrives.
C36_ReportFromActiveWorker ==
    /\ [][ReadsReport
          => /\ ReportClient \in DOMAIN processes
             /\ ReportIndex = processes[ReportClient].idx]_vars
    /\ [](\A k \in 1 .. Len(sent) : sent[k][2] >= 0)

\* a call without laggards_timeout whose command finishes on every target
AllFinish ==
    /\ ~LaggardMode
    /\ total >= 1
    /\ \A i \in DOMAIN outcome : outcome[i] # "hang"

\* C37: without laggards_timeout, if every dispatched operation finishes
\* (the command comes back on every target and no worker is lost with an
\* index unreported) and workers and orchestrator are scheduled fairly, the
\* loop eventually exits with done = total and multirun returns; and the
\* orchestrator never waits for a result while no worker is active.
C37_FairRunReturns ==
    /\ AllFinish ~> (WorkerLost \/ (pc = "returned" /\ done = total))
    /\ [](~LaggardMode /\ pc = "loop" /\ done < total => Active >= 1)

\* i is an index of some run with total <= USHRT_MAX records: 0 <= i < total
InHeaderRange(i) == 0 <= i /\ i < USHRT_MAX

\* C39: index i travels as the 16-bit unsigned value i + 1 and is decoded
\* as v - 1: for every total <= 65535 and every index i in 0 .. total - 1
\* pack does not fail, the two bytes written hold i + 1 (high byte times
\* 256 plus low byte), they are never the bytes of the retirement value 0,
\* so nothing wraps around modulo 2^16, and the worker reads back i.
C39_IndexRoundTrip ==
    InHeaderRange(wire.i)
    => /\ wire.st # "struct.error"
       /\ wire.st \in {"written", "read"}
          => /\ Len(wire.v) = 2
             /\ wire.v[1] \in 0 .. 255
             /\ wire.v[2] \in 0 .. 255
             /\ 256 * wire.v[2] + wire.v[1] = wire.i + 1
             /\ wire.v # <<0, 0>>
       /\ wire.st = "read" => wire.d = wire.i

\* an index whose value needs both bytes has been written and read back
C39_Witness ==
    /\ wire.st = "read"
    /\ wire.i = USHRT_MAX - 1
    /\ wire.v = <<255, 255>>
    /\ wire.d = wire.i
====
